---- MODULE Spec2Model ----
(***************************************************************************)
(* Referral network, level-reward engine, balance ledger and the          *)
(* registration-deposit workflow of the Hatra Suci backend, together with  *)
(* the two-level settings cache.                                           *)
(*                                                                         *)
(* Request handlers are asynchronous: every store operation (findById,     *)
(* countDocuments, create, save, updateOne, findOneAndUpdate) is one step  *)
(* of a handler, and steps of different requests interleave freely.  A     *)
(* document loaded by a handler is a private snapshot; save() writes back  *)
(* only the paths the handler modified (scalars by $set, array pushes by   *)
(* $push), which is how the ODM used by the source persists documents.     *)
(***************************************************************************)
EXTENDS Integers, Sequences, FiniteSets, TLC

(***************************************************************************)
(* Bounds of the model.                                                    *)
(***************************************************************************)
MaxReq == 2          \* requests started in one behaviour
Procs == {1, 2}      \* request slots: requests that may be in flight together
UserIds == <<"s", "a", "b", "c">>
Users == {UserIds[i] : i \in 1..Len(UserIds)}
\* the accounts whose wallet requests (deposit, withdrawal, spin, bonus, status
\* edits) are explored
WalletUsers == {"s", "a"}
NoUser == "none"

(***************************************************************************)
(* Inputs the handlers are driven with.                                    *)
(***************************************************************************)
RegAmounts == {60}           \* registration deposits (minimum is 60)
DepAmounts == {60}           \* ordinary deposits
WdrAmounts == {40, 60}       \* withdrawal requests
BonusAmounts == {5}          \* admin bonus
SpinRewards == {1}           \* reward drawn by the server for a spin
Verdicts == {"approved", "rejected"}
Today == 1                   \* the calendar day of every request
Keys == {"k1", "k2"}         \* setting keys
Vals == {0, 2}               \* values a setting is given
Defaults == {0 - 1, 0, 1}    \* defaults passed by callers (-1: none, null)
Workers == {1, 2}            \* worker processes of the cluster
MaxNow == 1                  \* clock ticks in one behaviour

(***************************************************************************)
(* Level rewards configuration.                                            *)
(***************************************************************************)
Tier(l, lr, rr, rw) == [level |-> l, leftRequired |-> lr, rightRequired |-> rr, reward |-> rw]

LEVEL_REWARDS ==
  << Tier(0, 0, 0, 0),
     Tier(1, 1, 1, 11),
     Tier(2, 6, 6, 67),
     Tier(3, 12, 12, 89),
     Tier(4, 25, 25, 167),
     Tier(5, 50, 50, 278),
     Tier(6, 75, 75, 389),
     Tier(7, 120, 120, 556),
     Tier(8, 160, 160, 1333),
     Tier(9, 220, 220, 1667),
     Tier(10, 300, 300, 2500),
     Tier(11, 500, 500, 8889),
     Tier(12, 1500, 1500, 50000) >>

WithdrawLockAmount == 65
MinRegistrationDeposit == 60

(***************************************************************************)
(* Sequence helpers.                                                       *)
(***************************************************************************)
Includes(seq, x) == \E i \in 1..Len(seq) : seq[i] = x

Range(seq) == {seq[i] : i \in 1..Len(seq)}

RECURSIVE SumSeq(_)
SumSeq(seq) == IF seq = <<>> THEN 0 ELSE Head(seq) + SumSeq(Tail(seq))

Max0(x) == IF x > 0 THEN x ELSE 0

(***************************************************************************)
(* State.                                                                  *)
(***************************************************************************)
VARIABLES
  users,        \* User collection: id -> document
  edges,        \* Referral collection, in creation order
  deposits,     \* Deposit collection, in creation order
  withdrawals,  \* Withdrawal collection, in creation order
  txs,          \* Transaction collection, in creation order
  pc,           \* per request slot: the store operation it issues next
  loc,          \* per request slot: the handler's local variables
  nreq,         \* requests started so far
  regCredits,   \* history: per user, registration approvals that credited
  lastEval,     \* history: per user, the last evaluation returned and no
                \* edge of that user changed since it started
  refusal,      \* history: the error of the most recent refused request
  store,        \* Settings collection: key -> document
  l1,           \* memoryCache of each worker process: key -> entry
  l2,           \* the shared Redis cache: key -> entry
  now,          \* the clock, in units of 60 seconds
  cpc,          \* per request slot: the next step of a settings request
  cloc,         \* per request slot: the locals of a settings request
  redis,        \* whether the Redis client is configured (this.redis)
  writer,       \* history: per key, the slot of the update that wrote the
                \* store last and has not returned yet (0: it returned,
                \* -1: no update wrote the key)
  purged        \* history: the (worker, key) pairs whose invalidate(key) has returned
                \* with no getSetting of that key started on that worker since,
                \* and the (worker, key, "peer") triples of the L1 entries that
                \* were there when another worker's invalidate(key) returned
                \* and have not been written or deleted since

lvars == <<users, edges, deposits, withdrawals, txs, pc, loc, regCredits, lastEval, refusal>>

cvars == <<store, l1, l2, redis, now, cpc, cloc, writer, purged>>

vars == <<users, edges, deposits, withdrawals, txs, pc, loc, nreq, regCredits, lastEval,
          refusal, store, l1, l2, redis, now, cpc, cloc, writer, purged>>

db == <<users, edges, deposits, withdrawals, txs>>

(***************************************************************************)
(* Documents.                                                              *)
(***************************************************************************)
NoDoc ==
  [exists |-> FALSE, balance |-> 0, totalDeposits |-> 0, totalWithdrawals |-> 0,
   referredBy |-> NoUser, isActive |-> FALSE,
   registrationDepositPaid |-> FALSE, registrationDepositVerified |-> FALSE,
   spinWheelLastUsed |-> 0, spinWheelCount |-> 0, achievedLevels |-> <<>>]

NewUser(sponsor) == [NoDoc EXCEPT !.exists = TRUE, !.referredBy = sponsor]

ActiveUser(sponsor, amount) ==
  [NewUser(sponsor) EXCEPT !.isActive = TRUE, !.registrationDepositPaid = TRUE,
                           !.registrationDepositVerified = TRUE,
                           !.balance = amount, !.totalDeposits = amount]

Referral(r, u, sd, act) == [referrer |-> r, referred |-> u, side |-> sd, isActive |-> act]

DepositDoc(u, amt, st, reg) == [user |-> u, amount |-> amt, status |-> st, isRegistrationDeposit |-> reg]

\* before: history, the balance the request read before its debit
WithdrawalDoc(u, amt, st, bal) ==
  [user |-> u, amount |-> amt, status |-> st, before |-> bal]

Tx(u, ty, amt, st) == [user |-> u, type |-> ty, amount |-> amt, status |-> st]

IdleLoc ==
  [op |-> "none", u |-> NoUser, id |-> 0, amt |-> 0, status |-> "none",
   ev |-> NoUser, doc |-> NoDoc, left |-> 0, right |-> 0, newly |-> <<>>, ref |-> NoUser,
   after |-> FALSE, clean |-> FALSE, pre |-> "none", error |-> FALSE]

(***************************************************************************)
(* Store queries.                                                          *)
(***************************************************************************)
\* Referral.countDocuments({referrer, side, isActive: true})
CountActive(es, r, sd) ==
  Cardinality({i \in 1..Len(es) : es[i].referrer = r /\ es[i].side = sd /\ es[i].isActive})

\* variant: the placement count filters on isActive
CountAll_ActiveOnly(es, r) ==
  Cardinality({i \in 1..Len(es) : es[i].referrer = r /\ es[i].isActive})

\* Referral.countDocuments({referrer})
CountAll(es, r) == Cardinality({i \in 1..Len(es) : es[i].referrer = r})

\* index of the first document matching, 0 when none
FirstEdgeOf(es, u) ==
  LET m == {i \in 1..Len(es) : es[i].referred = u}
  IN IF m = {} THEN 0 ELSE CHOOSE i \in m : \A j \in m : i <= j

\* Referral.updateOne({referred: u}, {isActive: act})
UpdateOneEdge(es, u, act) ==
  LET i == FirstEdgeOf(es, u)
  IN IF i = 0 THEN es ELSE [es EXCEPT ![i].isActive = act]

\* variant: the filter does not ask for status pending
FindOneAndUpdate_AnyStatus(ts, u, ty, amt, st) ==
  LET m == {i \in 1..Len(ts) : ts[i].user = u /\ ts[i].type = ty /\ ts[i].amount = amt}
  IN IF m = {} THEN ts
     ELSE [ts EXCEPT ![CHOOSE i \in m : \A j \in m : i <= j].status = st]

\* Transaction.findOneAndUpdate({user, type, amount, status: 'pending'}, {status})
FindOneAndUpdate(ts, u, ty, amt, st) ==
  LET m == {i \in 1..Len(ts) : ts[i].user = u /\ ts[i].type = ty
                               /\ ts[i].amount = amt /\ ts[i].status = "pending"}
  IN IF m = {} THEN ts
     ELSE [ts EXCEPT ![CHOOSE i \in m : \A j \in m : i <= j].status = st]

\* document.save(): a scalar path is written only when the handler changed it
Modified(dbval, snapval, newval) == IF newval # snapval THEN newval ELSE dbval

(***************************************************************************)
(* Level-reward rule.                                                      *)
(***************************************************************************)
\* variant: a tier needs more than the required count on each side
Awardable_Strict(cfg, achieved, l, r) ==
  /\ ~(cfg.level = 0 \/ cfg.reward = 0)
  /\ ~Includes(achieved, cfg.level)
  /\ l > cfg.leftRequired /\ r > cfg.rightRequired

\* the body of the for-loop over LEVEL_REWARDS: is this tier awarded now?
Awardable(cfg, achieved, l, r) ==
  /\ ~(cfg.level = 0 \/ cfg.reward = 0)
  /\ ~Includes(achieved, cfg.level)
  /\ l >= cfg.leftRequired /\ r >= cfg.rightRequired

\* a loop that examines the tiers from the highest level down
NextAward_Descending(achieved, l, r) ==
  LET m == {i \in 1..Len(LEVEL_REWARDS) : Awardable(LEVEL_REWARDS[i], achieved, l, r)}
  IN IF m = {} THEN 0 ELSE CHOOSE i \in m : \A j \in m : i >= j

\* index in LEVEL_REWARDS of the next tier the loop awards, 0 when none
NextAward(achieved, l, r) ==
  LET m == {i \in 1..Len(LEVEL_REWARDS) : Awardable(LEVEL_REWARDS[i], achieved, l, r)}
  IN IF m = {} THEN 0 ELSE CHOOSE i \in m : \A j \in m : i <= j

RewardOf(level) ==
  LET m == {i \in 1..Len(LEVEL_REWARDS) : LEVEL_REWARDS[i].level = level}
  IN IF m = {} THEN 0 ELSE LEVEL_REWARDS[CHOOSE i \in m : TRUE].reward

RECURSIVE SumRewards(_)
SumRewards(levels) ==
  IF levels = <<>> THEN 0 ELSE RewardOf(Head(levels)) + SumRewards(Tail(levels))

(***************************************************************************)
(* Initial states: databases the program reaches by its own handlers.      *)
(*  fresh   - one verified user s who registered without a sponsor.        *)
(*  network - s has referred a (left, registration deposit pending) and b  *)
(*            (right, verified); s was evaluated when b was approved.      *)
(***************************************************************************)
Scenarios == {"fresh", "network"}

LedgerInit(scn) ==
  /\ users = [u \in Users |->
       CASE u = "s" -> ActiveUser(NoUser, 60)
         [] u = "a" /\ scn = "network" ->
              [NewUser("s") EXCEPT !.registrationDepositPaid = TRUE]
         [] u = "b" /\ scn = "network" -> ActiveUser("s", 60)
         [] OTHER -> NoDoc]
  /\ edges = IF scn = "network"
             THEN << Referral("s", "a", "left", FALSE), Referral("s", "b", "right", TRUE) >>
             ELSE << >>
  /\ deposits = IF scn = "network"
                THEN << DepositDoc("s", 60, "approved", TRUE), DepositDoc("a", 60, "pending", TRUE),
                        DepositDoc("b", 60, "approved", TRUE) >>
                ELSE << DepositDoc("s", 60, "approved", TRUE) >>
  /\ withdrawals = << >>
  /\ txs = IF scn = "network"
           THEN << Tx("s", "deposit", 60, "completed"), Tx("a", "deposit", 60, "pending"),
                   Tx("b", "deposit", 60, "completed") >>
           ELSE << Tx("s", "deposit", 60, "completed") >>
  /\ pc = [p \in Procs |-> "idle"]
  /\ loc = [p \in Procs |-> IdleLoc]
  /\ nreq = 0
  /\ regCredits = [u \in Users |-> IF users[u].registrationDepositVerified THEN 1 ELSE 0]
  /\ lastEval = [u \in Users |-> FALSE]
  /\ refusal = "none"


(***************************************************************************)
(* Request bookkeeping.                                                    *)
(***************************************************************************)
\* a new request takes the lowest free request slot
CanStart(p) ==
  /\ pc[p] = "idle" /\ nreq < MaxReq
  /\ \A q \in Procs : q < p => pc[q] # "idle"

Goto(p, label, l) ==
  /\ pc' = [pc EXCEPT ![p] = label]
  /\ loc' = [loc EXCEPT ![p] = l]
  /\ UNCHANGED refusal

Finish(p) ==
  /\ pc' = [pc EXCEPT ![p] = "idle"]
  /\ loc' = [loc EXCEPT ![p] = IdleLoc]
  /\ UNCHANGED refusal

\* return res.status(4xx).json({message}): the handler ends before any write
Refuse(p, error) ==
  /\ UNCHANGED <<pc, loc>>
  /\ refusal' = error

(***************************************************************************)
(* History bookkeeping for evaluations.                                    *)
(***************************************************************************)
EvalLabels == {"clr_left", "clr_right", "clr_tx", "clr_save",
               "plr_left", "plr_right", "plr_tx", "plr_save"}

\* an edge of referrer r was created or changed its isActive flag
NoteEdgeChange(l, r) ==
  [q \in Procs |->
     IF pc[q] \in EvalLabels /\ l[q].doc.exists /\ l[q].ev = r
     THEN [l[q] EXCEPT !.clean = FALSE, !.after = FALSE]
     ELSE l[q]]

(***************************************************************************)
(* checkLevelRewards: POST /api/user/level-rewards/check                   *)
(***************************************************************************)
\* const user = await User.findById(req.user._id)
clr_read(p) ==
  \E u \in Users :
    /\ CanStart(p) /\ users[u].exists
    /\ nreq' = nreq + 1
    /\ Goto(p, "clr_left", [IdleLoc EXCEPT !.op = "checkLevelRewards", !.u = u, !.ev = u,
                                            !.doc = users[u], !.clean = TRUE,
                                            !.after = lastEval[u]])
    /\ UNCHANGED <<db, regCredits, lastEval>>
    /\ UNCHANGED cvars

\* leftCount = await Referral.countDocuments({referrer, side: 'left', isActive: true})
clr_left(p) ==
  /\ pc[p] = "clr_left"
  /\ Goto(p, "clr_right", [loc[p] EXCEPT !.left = CountActive(edges, loc[p].ev, "left")])
  /\ UNCHANGED <<db, nreq, regCredits, lastEval>>
  /\ UNCHANGED cvars

\* rightCount = await ...; the loop then runs up to its first Transaction.create
clr_right(p) ==
  /\ pc[p] = "clr_right"
  /\ LET r == CountActive(edges, loc[p].ev, "right")
     IN IF NextAward(loc[p].doc.achievedLevels, loc[p].left, r) # 0
        THEN /\ Goto(p, "clr_tx", [loc[p] EXCEPT !.right = r])
             /\ UNCHANGED lastEval
        ELSE /\ Finish(p)
             /\ lastEval' = [lastEval EXCEPT ![loc[p].ev] = loc[p].clean]
  /\ UNCHANGED <<db, nreq, regCredits>>
  /\ UNCHANGED cvars

\* user.balance += reward; user.achievedLevels.push(level); await Transaction.create(...)
clr_tx(p) ==
  /\ pc[p] = "clr_tx"
  /\ LET i == NextAward(loc[p].doc.achievedLevels \o loc[p].newly, loc[p].left, loc[p].right)
         cfg == LEVEL_REWARDS[i]
         got == Append(loc[p].newly, cfg.level)
     IN /\ txs' = Append(txs, Tx(loc[p].ev, "level_reward", cfg.reward, "completed"))
        /\ Goto(p, IF NextAward(loc[p].doc.achievedLevels \o got, loc[p].left, loc[p].right) # 0
                   THEN "clr_tx" ELSE "clr_save",
                [loc[p] EXCEPT !.newly = got])
  /\ UNCHANGED <<users, edges, deposits, withdrawals, nreq, regCredits, lastEval>>
  /\ UNCHANGED cvars

\* a save that writes the balance but not the pushed levels
SaveAwards_DropsLevels(us, l) ==
  [us EXCEPT ![l.ev].balance = Modified(@, l.doc.balance, l.doc.balance + SumRewards(l.newly))]

\* a save that writes the pushed levels but not the balance
SaveAwards_LevelsOnly(us, l) ==
  [us EXCEPT ![l.ev].achievedLevels = @ \o l.newly]

\* if (newLevelsAchieved.length > 0) await user.save()
SaveAwards(us, l) ==
  [us EXCEPT ![l.ev].balance = Modified(@, l.doc.balance, l.doc.balance + SumRewards(l.newly)),
             ![l.ev].achievedLevels = @ \o l.newly]

clr_save(p) ==
  /\ pc[p] = "clr_save"
  /\ users' = SaveAwards(users, loc[p])
  /\ Finish(p)
  /\ lastEval' = [lastEval EXCEPT ![loc[p].ev] = loc[p].clean]
  /\ UNCHANGED <<edges, deposits, withdrawals, txs, nreq, regCredits>>
  /\ UNCHANGED cvars

(***************************************************************************)
(* processLevelRewards(userId): called by verifyRegistrationDeposit, which *)
(* continues at vr_tx when the call returns.                               *)
(***************************************************************************)
\* const user = await User.findById(userId); if (!user) return {error}
plr_read(p) ==
  /\ pc[p] = "plr_read"
  /\ IF users[loc[p].ref].exists
     THEN Goto(p, "plr_left", [loc[p] EXCEPT !.ev = loc[p].ref, !.doc = users[loc[p].ref],
                                             !.newly = <<>>, !.clean = TRUE,
                                             !.after = lastEval[loc[p].ref]])
     ELSE Goto(p, "vr_tx", loc[p])
  /\ UNCHANGED <<db, nreq, regCredits, lastEval>>
  /\ UNCHANGED cvars

\* variant: the left count takes the inactive referrals in
plr_left_CountsInactive(p) ==
  /\ pc[p] = "plr_left"
  /\ Goto(p, "plr_right",
          [loc[p] EXCEPT !.left = Cardinality({i \in 1..Len(edges) :
                                     edges[i].referrer = loc[p].ev /\ edges[i].side = "left"})])
  /\ UNCHANGED <<db, nreq, regCredits, lastEval>>
  /\ UNCHANGED cvars

plr_left(p) ==
  /\ pc[p] = "plr_left"
  /\ Goto(p, "plr_right", [loc[p] EXCEPT !.left = CountActive(edges, loc[p].ev, "left")])
  /\ UNCHANGED <<db, nreq, regCredits, lastEval>>
  /\ UNCHANGED cvars

plr_right(p) ==
  /\ pc[p] = "plr_right"
  /\ LET r == CountActive(edges, loc[p].ev, "right")
     IN IF NextAward(loc[p].doc.achievedLevels, loc[p].left, r) # 0
        THEN /\ Goto(p, "plr_tx", [loc[p] EXCEPT !.right = r])
             /\ UNCHANGED lastEval
        ELSE /\ Goto(p, "vr_tx", [loc[p] EXCEPT !.right = r, !.after = FALSE])
             /\ lastEval' = [lastEval EXCEPT ![loc[p].ev] = loc[p].clean]
  /\ UNCHANGED <<db, nreq, regCredits>>
  /\ UNCHANGED cvars

plr_tx(p) ==
  /\ pc[p] = "plr_tx"
  /\ LET i == NextAward(loc[p].doc.achievedLevels \o loc[p].newly, loc[p].left, loc[p].right)
         cfg == LEVEL_REWARDS[i]
         got == Append(loc[p].newly, cfg.level)
     IN /\ txs' = Append(txs, Tx(loc[p].ev, "level_reward", cfg.reward, "completed"))
        /\ Goto(p, IF NextAward(loc[p].doc.achievedLevels \o got, loc[p].left, loc[p].right) # 0
                   THEN "plr_tx" ELSE "plr_save",
                [loc[p] EXCEPT !.newly = got])
  /\ UNCHANGED <<users, edges, deposits, withdrawals, nreq, regCredits, lastEval>>
  /\ UNCHANGED cvars

plr_save(p) ==
  /\ pc[p] = "plr_save"
  /\ users' = SaveAwards(users, loc[p])
  /\ Goto(p, "vr_tx", [loc[p] EXCEPT !.after = FALSE])
  /\ lastEval' = [lastEval EXCEPT ![loc[p].ev] = loc[p].clean]
  /\ UNCHANGED <<edges, deposits, withdrawals, txs, nreq, regCredits>>
  /\ UNCHANGED cvars

\* processLevelRewards(userId) called on its own (it is exported), and its
\* return to that caller
plr_call(p) ==
  \E u \in Users :
    /\ CanStart(p) /\ users[u].exists
    /\ nreq' = nreq + 1
    /\ Goto(p, "plr_read", [IdleLoc EXCEPT !.op = "processLevelRewards", !.u = u, !.ref = u])
    /\ UNCHANGED <<db, regCredits, lastEval>>
    /\ UNCHANGED cvars

plr_return(p) ==
  /\ pc[p] = "vr_tx" /\ loc[p].op = "processLevelRewards"
  /\ Finish(p)
  /\ UNCHANGED <<db, nreq, regCredits, lastEval>>
  /\ UNCHANGED cvars

\* an awaited store operation of processLevelRewards rejects:
\* catch (error) { return { error: error.message } }, and the caller, which
\* does not look at the returned object, continues
plr_throws(p) ==
  /\ pc[p] \in {"plr_read", "plr_left", "plr_right", "plr_tx", "plr_save"}
  /\ Goto(p, "vr_tx", [loc[p] EXCEPT !.error = TRUE, !.after = FALSE])
  /\ UNCHANGED <<db, nreq, regCredits, lastEval>>
  /\ UNCHANGED cvars

(***************************************************************************)
(* verifyRegistrationDeposit: PUT /api/admin/registration-deposits/:id     *)
(***************************************************************************)
\* const deposit = await Deposit.findById(id); 404 / 400 unless a registration deposit
vr_read(p) ==
  \E id \in 1..Len(deposits), st \in Verdicts :
    /\ CanStart(p)
    /\ nreq' = nreq + 1
    /\ IF deposits[id].isRegistrationDeposit
       THEN Goto(p, "vr_dsave", [IdleLoc EXCEPT !.op = "verifyRegistrationDeposit", !.id = id,
                                                 !.status = st, !.u = deposits[id].user,
                                                 !.amt = deposits[id].amount,
                                                 !.pre = deposits[id].status])
       ELSE Refuse(p, "NotRegistrationDeposit")
    /\ UNCHANGED <<db, regCredits, lastEval>>
    /\ UNCHANGED cvars

\* deposit.status = status; await deposit.save()
vr_dsave(p) ==
  /\ pc[p] = "vr_dsave"
  /\ deposits' = [deposits EXCEPT ![loc[p].id].status = Modified(@, loc[p].pre, loc[p].status)]
  /\ Goto(p, "vr_uread", loc[p])
  /\ UNCHANGED <<users, edges, withdrawals, txs, nreq, regCredits, lastEval>>
  /\ UNCHANGED cvars

\* const user = await User.findById(deposit.user)
vr_uread(p) ==
  /\ pc[p] = "vr_uread"
  /\ Goto(p, "vr_usave", [loc[p] EXCEPT !.doc = users[loc[p].u]])
  /\ UNCHANGED <<db, nreq, regCredits, lastEval>>
  /\ UNCHANGED cvars

\* variant: a rejection also resets the user's achievedLevels
vr_usave_ResetsLevels(p) ==
  /\ pc[p] = "vr_usave"
  /\ LET u == loc[p].u
         d == loc[p].doc
     IN IF loc[p].status = "approved"
        THEN /\ users' = [users EXCEPT
                  ![u].isActive = Modified(@, d.isActive, TRUE),
                  ![u].registrationDepositVerified = Modified(@, d.registrationDepositVerified, TRUE),
                  ![u].balance = Modified(@, d.balance, d.balance + loc[p].amt),
                  ![u].totalDeposits = Modified(@, d.totalDeposits, d.totalDeposits + loc[p].amt)]
             /\ regCredits' = [regCredits EXCEPT ![u] = @ + 1]
        ELSE /\ users' = [users EXCEPT
                  ![u].isActive = Modified(@, d.isActive, FALSE),
                  ![u].registrationDepositVerified = Modified(@, d.registrationDepositVerified, FALSE),
                  ![u].achievedLevels = <<>>]
             /\ UNCHANGED regCredits
  /\ Goto(p, "vr_edge", loc[p])
  /\ UNCHANGED <<edges, deposits, withdrawals, txs, nreq, lastEval>>
  /\ UNCHANGED cvars

\* variant: the approval credits balance but not totalDeposits
vr_usave_NoTotalDeposits(p) ==
  /\ pc[p] = "vr_usave"
  /\ LET u == loc[p].u
         d == loc[p].doc
     IN IF loc[p].status = "approved"
        THEN /\ users' = [users EXCEPT
                  ![u].isActive = Modified(@, d.isActive, TRUE),
                  ![u].registrationDepositVerified = Modified(@, d.registrationDepositVerified, TRUE),
                  ![u].balance = Modified(@, d.balance, d.balance + loc[p].amt)]
             /\ regCredits' = [regCredits EXCEPT ![u] = @ + 1]
        ELSE /\ users' = [users EXCEPT
                  ![u].isActive = Modified(@, d.isActive, FALSE),
                  ![u].registrationDepositVerified = Modified(@, d.registrationDepositVerified, FALSE)]
             /\ UNCHANGED regCredits
  /\ Goto(p, "vr_edge", loc[p])
  /\ UNCHANGED <<edges, deposits, withdrawals, txs, nreq, lastEval>>
  /\ UNCHANGED cvars

\* approved: isActive, registrationDepositVerified, balance, totalDeposits; save
\* rejected: isActive = false, registrationDepositVerified = false; save
vr_usave(p) ==
  /\ pc[p] = "vr_usave"
  /\ LET u == loc[p].u
         d == loc[p].doc
     IN IF loc[p].status = "approved"
        THEN /\ users' = [users EXCEPT
                  ![u].isActive = Modified(@, d.isActive, TRUE),
                  ![u].registrationDepositVerified = Modified(@, d.registrationDepositVerified, TRUE),
                  ![u].balance = Modified(@, d.balance, d.balance + loc[p].amt),
                  ![u].totalDeposits = Modified(@, d.totalDeposits, d.totalDeposits + loc[p].amt)]
             /\ regCredits' = [regCredits EXCEPT ![u] = @ + 1]
        ELSE /\ users' = [users EXCEPT
                  ![u].isActive = Modified(@, d.isActive, FALSE),
                  ![u].registrationDepositVerified = Modified(@, d.registrationDepositVerified, FALSE)]
             /\ UNCHANGED regCredits
  /\ Goto(p, "vr_edge", loc[p])
  /\ UNCHANGED <<edges, deposits, withdrawals, txs, nreq, lastEval>>
  /\ UNCHANGED cvars

\* await Referral.updateOne({referred: deposit.user}, {isActive: status === 'approved'})
vr_edge(p) ==
  /\ pc[p] = "vr_edge"
  /\ LET act == (loc[p].status = "approved")
         i == FirstEdgeOf(edges, loc[p].u)
         changed == i # 0 /\ edges[i].isActive # act
         l == IF changed THEN NoteEdgeChange(loc, edges[i].referrer) ELSE loc
     IN /\ edges' = UpdateOneEdge(edges, loc[p].u, act)
        /\ lastEval' = IF changed THEN [lastEval EXCEPT ![edges[i].referrer] = FALSE] ELSE lastEval
        /\ pc' = [pc EXCEPT ![p] = IF act THEN "vr_find" ELSE "vr_tx"]
        /\ loc' = l
  /\ UNCHANGED <<users, deposits, withdrawals, txs, nreq, regCredits, refusal>>
  /\ UNCHANGED cvars

\* variant: the approval does not evaluate the sponsor
vr_find_SkipsEvaluation(p) ==
  /\ pc[p] = "vr_find"
  /\ Goto(p, "vr_tx", loc[p])
  /\ UNCHANGED <<db, nreq, regCredits, lastEval>>
  /\ UNCHANGED cvars

\* const referral = await Referral.findOne({referred: deposit.user})
vr_find(p) ==
  /\ pc[p] = "vr_find"
  /\ LET i == FirstEdgeOf(edges, loc[p].u)
     IN IF i # 0
        THEN Goto(p, "plr_read", [loc[p] EXCEPT !.ref = edges[i].referrer])
        ELSE Goto(p, "vr_tx", loc[p])
  /\ UNCHANGED <<db, nreq, regCredits, lastEval>>
  /\ UNCHANGED cvars

\* variant: the matching Transaction is completed whatever the verdict
vr_tx_AlwaysCompletes(p) ==
  /\ pc[p] = "vr_tx"
  /\ txs' = FindOneAndUpdate(txs, loc[p].u, "deposit", loc[p].amt, "completed")
  /\ Finish(p)
  /\ UNCHANGED <<users, edges, deposits, withdrawals, nreq, regCredits, lastEval>>
  /\ UNCHANGED cvars

\* await Transaction.findOneAndUpdate({user, type: 'deposit', amount, status: 'pending'}, ...)
vr_tx(p) ==
  /\ pc[p] = "vr_tx"
  /\ txs' = FindOneAndUpdate(txs, loc[p].u, "deposit", loc[p].amt,
                             IF loc[p].status = "approved" THEN "completed" ELSE "rejected")
  /\ Finish(p)
  /\ UNCHANGED <<users, edges, deposits, withdrawals, nreq, regCredits, lastEval>>
  /\ UNCHANGED cvars

(***************************************************************************)
(* register: POST /api/auth/register                                       *)
(***************************************************************************)
\* const user = await User.create({..., referredBy, isActive: false, ...})
\* the _id a new User document gets: the first one not in use
NextUserId(us) ==
  LET free == {i \in 1..Len(UserIds) : ~us[UserIds[i]].exists}
  IN UserIds[CHOOSE i \in free : \A j \in free : i <= j]

reg_create(p) ==
  \E u \in Users, sponsor \in Users \cup {NoUser} :
    /\ CanStart(p) /\ ~users[u].exists /\ u = NextUserId(users)
    /\ sponsor # NoUser => users[sponsor].exists
    /\ nreq' = nreq + 1
    /\ users' = [users EXCEPT ![u] = NewUser(sponsor)]
    /\ IF sponsor # NoUser
       THEN Goto(p, "reg_count", [IdleLoc EXCEPT !.op = "register", !.u = u, !.ref = sponsor])
       ELSE UNCHANGED <<pc, loc, refusal>>
    /\ UNCHANGED <<edges, deposits, withdrawals, txs, regCredits, lastEval>>
    /\ UNCHANGED cvars

\* const totalCount = await Referral.countDocuments({referrer: referredBy})
reg_count(p) ==
  /\ pc[p] = "reg_count"
  /\ Goto(p, "reg_edge", [loc[p] EXCEPT !.left = CountAll(edges, loc[p].ref)])
  /\ UNCHANGED <<db, nreq, regCredits, lastEval>>
  /\ UNCHANGED cvars

\* side = totalCount % 2 === 0 ? 'left' : 'right'
SideFor(totalCount) == IF totalCount % 2 = 0 THEN "left" ELSE "right"

\* variant: the side is computed from the edges present when the edge is inserted
reg_edge_CountsAtInsert(p) ==
  /\ pc[p] = "reg_edge"
  /\ edges' = Append(edges, Referral(loc[p].ref, loc[p].u,
                                     SideFor(CountAll(edges, loc[p].ref)), FALSE))
  /\ lastEval' = [lastEval EXCEPT ![loc[p].ref] = FALSE]
  /\ pc' = [pc EXCEPT ![p] = "idle"]
  /\ loc' = [NoteEdgeChange(loc, loc[p].ref) EXCEPT ![p] = IdleLoc]
  /\ UNCHANGED <<users, deposits, withdrawals, txs, nreq, regCredits, refusal>>
  /\ UNCHANGED cvars

\* await Referral.create({referrer: referredBy, referred: user._id, side, isActive: false})
reg_edge(p) ==
  /\ pc[p] = "reg_edge"
  /\ edges' = Append(edges, Referral(loc[p].ref, loc[p].u, SideFor(loc[p].left), FALSE))
  /\ lastEval' = [lastEval EXCEPT ![loc[p].ref] = FALSE]
  /\ pc' = [pc EXCEPT ![p] = "idle"]
  /\ loc' = [NoteEdgeChange(loc, loc[p].ref) EXCEPT ![p] = IdleLoc]
  /\ UNCHANGED <<users, deposits, withdrawals, txs, nreq, regCredits, refusal>>
  /\ UNCHANGED cvars

(***************************************************************************)
(* submitRegistrationDeposit: POST /api/auth/registration-deposit          *)
(***************************************************************************)
\* variant: a second submission by the same user is accepted
submitRegistrationDeposit_NoPaidCheck(p, u, amt) ==
  /\ CanStart(p) /\ users[u].exists
  /\ nreq' = nreq + 1
  /\ IF amt < MinRegistrationDeposit
     THEN Refuse(p, "BelowMinimum")
     ELSE Goto(p, "srd_usave", [IdleLoc EXCEPT !.op = "submitRegistrationDeposit",
                                                !.u = u, !.amt = amt, !.doc = users[u]])
  /\ UNCHANGED <<db, regCredits, lastEval>>
  /\ UNCHANGED cvars

\* amount < 60 -> 400; user = await User.findById(userId); paid already -> 400
submitRegistrationDeposit(p, u, amt) ==
  /\ CanStart(p) /\ users[u].exists
  /\ nreq' = nreq + 1
  /\ IF amt < MinRegistrationDeposit \/ users[u].registrationDepositPaid
     THEN Refuse(p, IF amt < MinRegistrationDeposit THEN "BelowMinimum"
                    ELSE "AlreadySubmitted")
     ELSE Goto(p, "srd_usave", [IdleLoc EXCEPT !.op = "submitRegistrationDeposit",
                                                !.u = u, !.amt = amt, !.doc = users[u]])
  /\ UNCHANGED <<db, regCredits, lastEval>>
  /\ UNCHANGED cvars

SubmitAmounts == RegAmounts \cup {MinRegistrationDeposit - 1}

srd_read(p) ==
  \E u \in Users, amt \in SubmitAmounts : submitRegistrationDeposit(p, u, amt)

\* user.registrationDepositPaid = true; await user.save()
srd_usave(p) ==
  /\ pc[p] = "srd_usave"
  /\ users' = [users EXCEPT ![loc[p].u].registrationDepositPaid =
                   Modified(@, loc[p].doc.registrationDepositPaid, TRUE)]
  /\ Goto(p, "srd_dep", loc[p])
  /\ UNCHANGED <<edges, deposits, withdrawals, txs, nreq, regCredits, lastEval>>
  /\ UNCHANGED cvars

\* await Deposit.create({user, amount, status: 'pending', isRegistrationDeposit: true})
srd_dep(p) ==
  /\ pc[p] = "srd_dep"
  /\ deposits' = Append(deposits, DepositDoc(loc[p].u, loc[p].amt, "pending", TRUE))
  /\ Goto(p, "srd_tx", loc[p])
  /\ UNCHANGED <<users, edges, withdrawals, txs, nreq, regCredits, lastEval>>
  /\ UNCHANGED cvars

\* Deposit.create rejects: the body had no transactionHash, which the schema
\* requires (the hash is read at this step only, so it is chosen here);
\* catch (error) { res.status(500).json(...) }
srd_dep_rejects(p) ==
  /\ pc[p] = "srd_dep"
  /\ pc' = [pc EXCEPT ![p] = "idle"]
  /\ loc' = [loc EXCEPT ![p] = IdleLoc]
  /\ refusal' = "ValidationError"
  /\ UNCHANGED <<db, nreq, regCredits, lastEval>>
  /\ UNCHANGED cvars

\* await Transaction.create({user, type: 'deposit', amount, status: 'pending'})
srd_tx(p) ==
  /\ pc[p] = "srd_tx"
  /\ txs' = Append(txs, Tx(loc[p].u, "deposit", loc[p].amt, "pending"))
  /\ Finish(p)
  /\ UNCHANGED <<users, edges, deposits, withdrawals, nreq, regCredits, lastEval>>
  /\ UNCHANGED cvars

(***************************************************************************)
(* createDeposit: POST /api/user/deposits                                  *)
(***************************************************************************)
\* depositsEnabled (setting) false -> 403; await Deposit.create({user, amount, ...})
cd_dep(p) ==
  \E u \in WalletUsers, amt \in DepAmounts, depositsEnabled \in BOOLEAN :
    /\ CanStart(p) /\ users[u].exists
    /\ nreq' = nreq + 1
    /\ IF depositsEnabled
       THEN /\ deposits' = Append(deposits, DepositDoc(u, amt, "pending", FALSE))
            /\ Goto(p, "cd_tx", [IdleLoc EXCEPT !.op = "createDeposit", !.u = u, !.amt = amt])
       ELSE UNCHANGED deposits /\ Refuse(p, "DepositsDisabled")
    /\ UNCHANGED <<users, edges, withdrawals, txs, regCredits, lastEval>>
    /\ UNCHANGED cvars

\* await Transaction.create({user, type: 'deposit', amount, status: 'pending'})
cd_tx(p) ==
  /\ pc[p] = "cd_tx"
  /\ txs' = Append(txs, Tx(loc[p].u, "deposit", loc[p].amt, "pending"))
  /\ Finish(p)
  /\ UNCHANGED <<users, edges, deposits, withdrawals, nreq, regCredits, lastEval>>
  /\ UNCHANGED cvars

(***************************************************************************)
(* updateDeposit: PUT /api/admin/deposits/:id                              *)
(***************************************************************************)
\* variant: updateDeposit without the registration-deposit guard
ud_read_NoGuard(p) ==
  \E id \in 1..Len(deposits), st \in Verdicts :
    /\ CanStart(p)
    /\ nreq' = nreq + 1
    /\ Goto(p, "ud_dsave", [IdleLoc EXCEPT !.op = "updateDeposit", !.id = id,
                                            !.status = st, !.u = deposits[id].user,
                                            !.amt = deposits[id].amount,
                                            !.pre = deposits[id].status])
    /\ UNCHANGED <<db, regCredits, lastEval>>
    /\ UNCHANGED cvars

\* deposit = await Deposit.findById(id); registration deposits -> 400
ud_read(p) ==
  \E id \in 1..Len(deposits), st \in Verdicts :
    /\ CanStart(p)
    /\ nreq' = nreq + 1
    /\ IF deposits[id].isRegistrationDeposit
       THEN Refuse(p, "RegistrationDeposit")
       ELSE Goto(p, "ud_dsave", [IdleLoc EXCEPT !.op = "updateDeposit", !.id = id,
                                                 !.status = st, !.u = deposits[id].user,
                                                 !.amt = deposits[id].amount,
                                                 !.pre = deposits[id].status])
    /\ UNCHANGED <<db, regCredits, lastEval>>
    /\ UNCHANGED cvars

\* deposit.status = status; await deposit.save()
ud_dsave(p) ==
  /\ pc[p] = "ud_dsave"
  /\ deposits' = [deposits EXCEPT ![loc[p].id].status = Modified(@, loc[p].pre, loc[p].status)]
  /\ Goto(p, IF loc[p].status = "approved" THEN "ud_uread" ELSE "ud_tx", loc[p])
  /\ UNCHANGED <<users, edges, withdrawals, txs, nreq, regCredits, lastEval>>
  /\ UNCHANGED cvars

\* const user = await User.findById(deposit.user)
ud_uread(p) ==
  /\ pc[p] = "ud_uread"
  /\ Goto(p, "ud_usave", [loc[p] EXCEPT !.doc = users[loc[p].u]])
  /\ UNCHANGED <<db, nreq, regCredits, lastEval>>
  /\ UNCHANGED cvars

\* user.balance += deposit.amount; user.totalDeposits += deposit.amount; await user.save()
ud_usave(p) ==
  /\ pc[p] = "ud_usave"
  /\ LET d == loc[p].doc
     IN users' = [users EXCEPT
          ![loc[p].u].balance = Modified(@, d.balance, d.balance + loc[p].amt),
          ![loc[p].u].totalDeposits = Modified(@, d.totalDeposits, d.totalDeposits + loc[p].amt)]
  /\ Goto(p, "ud_tx", loc[p])
  /\ UNCHANGED <<edges, deposits, withdrawals, txs, nreq, regCredits, lastEval>>
  /\ UNCHANGED cvars

\* await Transaction.findOneAndUpdate({user, type: 'deposit', amount, status: 'pending'}, ...)
ud_tx(p) ==
  /\ pc[p] = "ud_tx"
  /\ txs' = FindOneAndUpdate(txs, loc[p].u, "deposit", loc[p].amt,
                             IF loc[p].status = "approved" THEN "completed" ELSE "rejected")
  /\ Finish(p)
  /\ UNCHANGED <<users, edges, deposits, withdrawals, nreq, regCredits, lastEval>>
  /\ UNCHANGED cvars

(***************************************************************************)
(* createWithdrawal: POST /api/user/withdrawals                            *)
(***************************************************************************)
\* variant: the locked amount is not subtracted
AvailableBalance_IgnoresLock(balance, isWithinLockPeriod, lockAmount) ==
  balance

\* availableBalance = isWithinLockPeriod ? Math.max(0, balance - lockAmount) : balance
AvailableBalance(balance, isWithinLockPeriod, lockAmount) ==
  IF isWithinLockPeriod THEN Max0(balance - lockAmount) ELSE balance

\* variant: the insufficient-balance check is missing
WithdrawalAccepted_NoBalanceCheck(balance, amount, isWithinLockPeriod, lockAmount) ==
  ~(isWithinLockPeriod /\ amount > AvailableBalance(balance, isWithinLockPeriod, lockAmount))

\* the request passes the lock check and the balance check
WithdrawalAccepted(balance, amount, isWithinLockPeriod, lockAmount) ==
  /\ ~(isWithinLockPeriod /\ amount > AvailableBalance(balance, isWithinLockPeriod, lockAmount))
  /\ ~(balance < amount)

\* settings; user = await User.findById(req.user._id); lock check; balance check
createWithdrawal(p, u, amt, withdrawalsEnabled, isWithinLockPeriod) ==
  /\ CanStart(p) /\ users[u].exists
  /\ nreq' = nreq + 1
  /\ IF ~withdrawalsEnabled
     THEN Refuse(p, "WithdrawalsDisabled")
     ELSE IF WithdrawalAccepted(users[u].balance, amt, isWithinLockPeriod, WithdrawLockAmount)
     THEN Goto(p, "cw_wd", [IdleLoc EXCEPT !.op = "createWithdrawal", !.u = u, !.amt = amt,
                                            !.doc = users[u]])
     ELSE Refuse(p, IF isWithinLockPeriod
                       /\ amt > AvailableBalance(users[u].balance, isWithinLockPeriod,
                                                 WithdrawLockAmount)
                    THEN "Locked" ELSE "InsufficientBalance")
  /\ UNCHANGED <<db, regCredits, lastEval>>
  /\ UNCHANGED cvars

cw_read(p) ==
  \E u \in WalletUsers, amt \in WdrAmounts, withdrawalsEnabled \in BOOLEAN,
     isWithinLockPeriod \in BOOLEAN :
    createWithdrawal(p, u, amt, withdrawalsEnabled, isWithinLockPeriod)

\* const withdrawal = await Withdrawal.create({user, amount, walletAddress})
cw_wd(p) ==
  /\ pc[p] = "cw_wd"
  /\ withdrawals' = Append(withdrawals, WithdrawalDoc(loc[p].u, loc[p].amt, "pending",
                                                     loc[p].doc.balance))
  /\ Goto(p, "cw_usave", loc[p])
  /\ UNCHANGED <<users, edges, deposits, txs, nreq, regCredits, lastEval>>
  /\ UNCHANGED cvars

\* user.balance -= amount; await user.save()
cw_usave(p) ==
  /\ pc[p] = "cw_usave"
  /\ users' = [users EXCEPT ![loc[p].u].balance =
                   Modified(@, loc[p].doc.balance, loc[p].doc.balance - loc[p].amt)]
  /\ Goto(p, "cw_tx", loc[p])
  /\ UNCHANGED <<edges, deposits, withdrawals, txs, nreq, regCredits, lastEval>>
  /\ UNCHANGED cvars

\* await Transaction.create({user, type: 'withdrawal', amount, status: 'pending'})
cw_tx(p) ==
  /\ pc[p] = "cw_tx"
  /\ txs' = Append(txs, Tx(loc[p].u, "withdrawal", loc[p].amt, "pending"))
  /\ Finish(p)
  /\ UNCHANGED <<users, edges, deposits, withdrawals, nreq, regCredits, lastEval>>
  /\ UNCHANGED cvars

(***************************************************************************)
(* updateWithdrawal: PUT /api/admin/withdrawals/:id                        *)
(***************************************************************************)
\* const withdrawal = await Withdrawal.findById(id)
uw_read(p) ==
  \E id \in 1..Len(withdrawals), st \in Verdicts :
    /\ CanStart(p)
    /\ nreq' = nreq + 1
    /\ Goto(p, "uw_wsave", [IdleLoc EXCEPT !.op = "updateWithdrawal", !.id = id, !.status = st,
                                            !.u = withdrawals[id].user,
                                            !.amt = withdrawals[id].amount,
                                            !.pre = withdrawals[id].status])
    /\ UNCHANGED <<db, regCredits, lastEval>>
    /\ UNCHANGED cvars

\* withdrawal.status = status; await withdrawal.save()
uw_wsave(p) ==
  /\ pc[p] = "uw_wsave"
  /\ withdrawals' = [withdrawals EXCEPT ![loc[p].id].status = Modified(@, loc[p].pre, loc[p].status)]
  /\ Goto(p, "uw_uread", loc[p])
  /\ UNCHANGED <<users, edges, deposits, txs, nreq, regCredits, lastEval>>
  /\ UNCHANGED cvars

\* const user = await User.findById(withdrawal.user)
uw_uread(p) ==
  /\ pc[p] = "uw_uread"
  /\ Goto(p, "uw_usave", [loc[p] EXCEPT !.doc = users[loc[p].u]])
  /\ UNCHANGED <<db, nreq, regCredits, lastEval>>
  /\ UNCHANGED cvars

\* variant: a rejection does not return the amount
uw_usave_NoRefund(p) ==
  /\ pc[p] = "uw_usave"
  /\ LET d == loc[p].doc
     IN users' = IF loc[p].status = "rejected"
                 THEN users
                 ELSE [users EXCEPT ![loc[p].u].totalWithdrawals =
                          Modified(@, d.totalWithdrawals, d.totalWithdrawals + loc[p].amt)]
  /\ Goto(p, "uw_tx", loc[p])
  /\ UNCHANGED <<edges, deposits, withdrawals, txs, nreq, regCredits, lastEval>>
  /\ UNCHANGED cvars

\* rejected: user.balance += amount; approved: user.totalWithdrawals += amount; save
uw_usave(p) ==
  /\ pc[p] = "uw_usave"
  /\ LET d == loc[p].doc
     IN users' = IF loc[p].status = "rejected"
                 THEN [users EXCEPT ![loc[p].u].balance =
                          Modified(@, d.balance, d.balance + loc[p].amt)]
                 ELSE [users EXCEPT ![loc[p].u].totalWithdrawals =
                          Modified(@, d.totalWithdrawals, d.totalWithdrawals + loc[p].amt)]
  /\ Goto(p, "uw_tx", loc[p])
  /\ UNCHANGED <<edges, deposits, withdrawals, txs, nreq, regCredits, lastEval>>
  /\ UNCHANGED cvars

\* await Transaction.findOneAndUpdate({user, type: 'withdrawal', amount, status: 'pending'}, ...)
uw_tx(p) ==
  /\ pc[p] = "uw_tx"
  /\ txs' = FindOneAndUpdate(txs, loc[p].u, "withdrawal", loc[p].amt,
                             IF loc[p].status = "rejected" THEN "rejected" ELSE "completed")
  /\ Finish(p)
  /\ UNCHANGED <<users, edges, deposits, withdrawals, nreq, regCredits, lastEval>>
  /\ UNCHANGED cvars

(***************************************************************************)
(* creditBonus: POST /api/admin/bonus                                      *)
(***************************************************************************)
\* amount <= 0 -> 400; const user = await User.findById(userId)
cb_read(p) ==
  \E u \in WalletUsers, amt \in BonusAmounts \cup {0} :
    /\ CanStart(p) /\ users[u].exists
    /\ nreq' = nreq + 1
    /\ IF amt <= 0
       THEN Refuse(p, "InvalidAmount")
       ELSE Goto(p, "cb_usave", [IdleLoc EXCEPT !.op = "creditBonus", !.u = u, !.amt = amt,
                                                 !.doc = users[u]])
    /\ UNCHANGED <<db, regCredits, lastEval>>
    /\ UNCHANGED cvars

\* user.balance += amount; await user.save()
cb_usave(p) ==
  /\ pc[p] = "cb_usave"
  /\ users' = [users EXCEPT ![loc[p].u].balance =
                   Modified(@, loc[p].doc.balance, loc[p].doc.balance + loc[p].amt)]
  /\ Goto(p, "cb_tx", loc[p])
  /\ UNCHANGED <<edges, deposits, withdrawals, txs, nreq, regCredits, lastEval>>
  /\ UNCHANGED cvars

\* await Transaction.create({user, type: 'bonus', amount, status: 'completed'})
cb_tx(p) ==
  /\ pc[p] = "cb_tx"
  /\ txs' = Append(txs, Tx(loc[p].u, "bonus", loc[p].amt, "completed"))
  /\ Finish(p)
  /\ UNCHANGED <<users, edges, deposits, withdrawals, nreq, regCredits, lastEval>>
  /\ UNCHANGED cvars

(***************************************************************************)
(* spinWheel: POST /api/user/spin-wheel                                    *)
(***************************************************************************)
\* const user = await User.findById(req.user._id); last spin today -> 400
sw_read(p) ==
  \E u \in WalletUsers, reward \in SpinRewards :
    /\ CanStart(p) /\ users[u].exists
    /\ nreq' = nreq + 1
    /\ IF users[u].spinWheelLastUsed # 0 /\ users[u].spinWheelLastUsed >= Today
       THEN Refuse(p, "AlreadySpun")
       ELSE Goto(p, "sw_usave", [IdleLoc EXCEPT !.op = "spinWheel", !.u = u, !.amt = reward,
                                                 !.doc = users[u]])
    /\ UNCHANGED <<db, regCredits, lastEval>>
    /\ UNCHANGED cvars

\* user.balance += reward; user.spinWheelLastUsed = now; user.spinWheelCount += 1; save
sw_usave(p) ==
  /\ pc[p] = "sw_usave"
  /\ LET d == loc[p].doc
     IN users' = [users EXCEPT
          ![loc[p].u].balance = Modified(@, d.balance, d.balance + loc[p].amt),
          ![loc[p].u].spinWheelLastUsed = Modified(@, d.spinWheelLastUsed, Today),
          ![loc[p].u].spinWheelCount = Modified(@, d.spinWheelCount, d.spinWheelCount + 1)]
  /\ Goto(p, "sw_tx", loc[p])
  /\ UNCHANGED <<edges, deposits, withdrawals, txs, nreq, regCredits, lastEval>>
  /\ UNCHANGED cvars

\* await Transaction.create({user, type: 'daily_reward', amount: reward, status: 'completed'})
sw_tx(p) ==
  /\ pc[p] = "sw_tx"
  /\ txs' = Append(txs, Tx(loc[p].u, "daily_reward", loc[p].amt, "completed"))
  /\ Finish(p)
  /\ UNCHANGED <<users, edges, deposits, withdrawals, nreq, regCredits, lastEval>>
  /\ UNCHANGED cvars

(***************************************************************************)
(* updateUser: PUT /api/admin/users/:id (the isActive field; edits of the  *)
(* balance field are outside the ledger and not driven here)               *)
(***************************************************************************)
\* const user = await User.findById(id)
uu_read(p) ==
  \E u \in WalletUsers, act \in BOOLEAN :
    /\ CanStart(p) /\ users[u].exists
    /\ nreq' = nreq + 1
    /\ Goto(p, "uu_save", [IdleLoc EXCEPT !.op = "updateUser", !.u = u, !.doc = users[u],
                                           !.status = IF act THEN "active" ELSE "inactive"])
    /\ UNCHANGED <<db, regCredits, lastEval>>
    /\ UNCHANGED cvars

\* user.isActive = req.body.isActive; await user.save()
uu_save(p) ==
  /\ pc[p] = "uu_save"
  /\ users' = [users EXCEPT ![loc[p].u].isActive =
                   Modified(@, loc[p].doc.isActive, loc[p].status = "active")]
  /\ Finish(p)
  /\ UNCHANGED <<edges, deposits, withdrawals, txs, nreq, regCredits, lastEval>>
  /\ UNCHANGED cvars

(***************************************************************************)
(* Settings cache (cache.js) and settings helpers (settingsHelper.js).     *)
(* Setting values are the toggles and numbers the handlers read: 0 stands  *)
(* for a falsy value (false, 0), 1 and 2 for truthy ones; Null is null.    *)
(* The clock counts units of 60 seconds, so the L1 window of 60 * 1000 ms  *)
(* is one unit and the Redis expiry of 300 s is five.                      *)
(***************************************************************************)
MEMORY_TTL == 1
REDIS_TTL == 5

Null == 0 - 1
Truthy(v) == v # 0 /\ v # Null

\* JSON.stringify / the deserialisation of the stored text
Stringify(v) == <<"json", v>>
Parse(text) == text[2]

NoEntry == [has |-> FALSE, value |-> Null, timestamp |-> 0]
NoShared == [has |-> FALSE, text |-> Stringify(Null), expires |-> 0]
NoSetting == [has |-> FALSE, value |-> Null]

\* a key of the results object that has not been assigned
Undefined == 0 - 2

\* keys, fetch, res: the keys argument, keysToFetch and results of getSettings
\* queries, err: history, the store queries the call has issued and whether a
\* Redis command of the call has failed
\* exp: history, what getSetting yields from the worker's L1 and the store alone,
\* as they are when the call starts
\* raced: history, set for a getSetting that has read the store and not yet
\* written the cache when an invalidation of its key returns that began after
\* a store write of the key made during the read
IdleCLoc ==
  [op |-> "none", w |-> 0, key |-> "none", def |-> Null, val |-> Null, items |-> <<>>,
   ret |-> Null, settled |-> FALSE, stable |-> FALSE, purged |-> FALSE,
   keys |-> <<>>, fetch |-> <<>>, res |-> [k \in Keys |-> Undefined],
   queries |-> 0, err |-> FALSE, exp |-> Null, raced |-> FALSE]

\* memItem && (Date.now() - memItem.timestamp) < MEMORY_TTL
FreshL1(e, t) == e.has /\ (t - e.timestamp) < MEMORY_TTL

\* Redis returns the key until its expiry
LiveL2(e, t) == e.has /\ t < e.expires

CacheScenarios == {"cold", "warm"}

\* cold: the setting k1 is stored, nothing is cached.
\* warm: worker 1 has just read k1 through getSetting, filling both levels.
\* stale: as warm, and updateSettings has then written k1 := 0 to the store.
CacheInit(c, redisOn) ==
  /\ store = [k \in Keys |->
                IF k = "k1" THEN [has |-> TRUE, value |-> IF c = "stale" THEN 0 ELSE 1]
                ELSE NoSetting]
  /\ l1 = [w \in Workers |-> [k \in Keys |->
             IF c \in {"warm", "stale"} /\ w = 1 /\ k = "k1"
             THEN [has |-> TRUE, value |-> 1, timestamp |-> 0] ELSE NoEntry]]
  /\ l2 = [k \in Keys |->
             IF c \in {"warm", "stale"} /\ redisOn /\ k = "k1"
             THEN [has |-> TRUE, text |-> Stringify(1), expires |-> REDIS_TTL] ELSE NoShared]
  /\ redis = redisOn
  /\ now = 0
  /\ cpc = [p \in Procs |-> "idle"]
  /\ cloc = [p \in Procs |-> IdleCLoc]
  /\ writer = [k \in Keys |-> 0 - 1]
  /\ purged = {}

CanStartC(p) ==
  /\ cpc[p] = "idle" /\ nreq < MaxReq
  /\ \A q \in Procs : q < p => cpc[q] # "idle"

GotoC(p, label, l) ==
  /\ cpc' = [cpc EXCEPT ![p] = label]
  /\ cloc' = [cloc EXCEPT ![p] = l]

\* worker w writes its L1 entry of key k: the entry no longer predates an
\* invalidation
Rewritten(w, k) == purged \ {<<w, k, "peer">>}

\* the L1 entries of key k that other workers hold when worker w's
\* invalidation of k returns
Outlived(w, k) == {<<v, k, "peer">> : v \in {x \in Workers \ {w} : l1[x][k].has}}

\* a store write of key k during a read of k
NoteStoreWrite(l, k) ==
  [q \in Procs |-> IF l[q].key = k THEN [l[q] EXCEPT !.stable = FALSE] ELSE l[q]]

(***************************************************************************)
(* getSetting(Settings, key, defaultValue)                                 *)
(***************************************************************************)
\* settingsCache.get, L1: a fresh memItem is returned; getSetting returns it
\* unless it is null
gs_l1(p) ==
  \E w \in Workers, k \in Keys, d \in Defaults :
    /\ CanStartC(p)
    /\ nreq' = nreq + 1
    /\ LET l == [IdleCLoc EXCEPT !.op = "getSetting", !.w = w, !.key = k, !.def = d,
                                 !.settled = (writer[k] = 0), !.stable = TRUE,
                                 !.purged = (<<w, k>> \in purged),
                                 !.exp = IF FreshL1(l1[w][k], now) /\ l1[w][k].value # Null
                                         THEN l1[w][k].value
                                         ELSE IF store[k].has THEN store[k].value ELSE d]
       IN IF FreshL1(l1[w][k], now)
          THEN IF l1[w][k].value # Null
               THEN GotoC(p, "gs_done", [l EXCEPT !.ret = l1[w][k].value])
               ELSE GotoC(p, "gs_find", l)
          ELSE GotoC(p, IF redis THEN "gs_l2" ELSE "gs_find", l)
    /\ purged' = purged \ {<<w, k>>}
    /\ UNCHANGED <<store, l1, l2, redis, now, writer>>
    /\ UNCHANGED lvars

\* variant: a failing redis.get ends the read with null
gs_redisGet_GivesUp(p, ok) ==
  /\ cpc[p] = "gs_l2"
  /\ LET e == l2[cloc[p].key]
         redisValue == Parse(e.text)
     IN IF ok /\ LiveL2(e, now) /\ Truthy(redisValue)
        THEN /\ l1' = [l1 EXCEPT ![cloc[p].w][cloc[p].key] =
                         [has |-> TRUE, value |-> redisValue, timestamp |-> now]]
             /\ purged' = Rewritten(cloc[p].w, cloc[p].key)
             /\ GotoC(p, "gs_done", [cloc[p] EXCEPT !.ret = redisValue])
        ELSE /\ GotoC(p, IF ok THEN "gs_find" ELSE "gs_done", cloc[p])
             /\ UNCHANGED <<l1, purged>>
  /\ UNCHANGED <<store, l2, redis, now, writer, nreq>>
  /\ UNCHANGED lvars

\* settingsCache.get, L2: redis.get; a truthy value populates L1 and is returned
gs_redisGet(p, ok) ==
  /\ cpc[p] = "gs_l2"
  /\ LET e == l2[cloc[p].key]
         redisValue == Parse(e.text)
     IN IF ok /\ LiveL2(e, now) /\ Truthy(redisValue)
        THEN /\ l1' = [l1 EXCEPT ![cloc[p].w][cloc[p].key] =
                         [has |-> TRUE, value |-> redisValue, timestamp |-> now]]
             /\ purged' = Rewritten(cloc[p].w, cloc[p].key)
             /\ GotoC(p, "gs_done", [cloc[p] EXCEPT !.ret = redisValue])
        ELSE /\ GotoC(p, "gs_find", cloc[p])
             /\ UNCHANGED <<l1, purged>>
  /\ UNCHANGED <<store, l2, redis, now, writer, nreq>>
  /\ UNCHANGED lvars

gs_l2(p) == \E ok \in BOOLEAN : gs_redisGet(p, ok)

\* const setting = await Settings.findOne({key}).lean(); value = setting ? setting.value : defaultValue
gs_find(p) ==
  /\ cpc[p] = "gs_find"
  /\ LET d == store[cloc[p].key]
     IN GotoC(p, "gs_set", [cloc[p] EXCEPT !.val = IF d.has THEN d.value ELSE cloc[p].def])
  /\ UNCHANGED <<store, l1, l2, redis, now, writer, purged, nreq>>
  /\ UNCHANGED lvars

\* settingsCache.set, L1: memoryCache.set(cacheKey, {value, timestamp: Date.now()})
gs_set(p) ==
  /\ cpc[p] = "gs_set"
  /\ l1' = [l1 EXCEPT ![cloc[p].w][cloc[p].key] =
              [has |-> TRUE, value |-> cloc[p].val, timestamp |-> now]]
  /\ purged' = Rewritten(cloc[p].w, cloc[p].key)
  /\ IF redis
     THEN GotoC(p, "gs_setex", cloc[p])
     ELSE GotoC(p, "gs_done", [cloc[p] EXCEPT !.ret = cloc[p].val])
  /\ UNCHANGED <<store, l2, redis, now, writer, nreq>>
  /\ UNCHANGED lvars

\* settingsCache.set, L2: await this.redis.setex(cacheKey, REDIS_TTL, JSON.stringify(value))
gs_redisSetex(p, ok) ==
  /\ cpc[p] = "gs_setex"
  /\ l2' = IF ok
           THEN [l2 EXCEPT ![cloc[p].key] =
                   [has |-> TRUE, text |-> Stringify(cloc[p].val), expires |-> now + REDIS_TTL]]
           ELSE l2
  /\ GotoC(p, "gs_done", [cloc[p] EXCEPT !.ret = cloc[p].val])
  /\ UNCHANGED <<store, l1, redis, now, writer, purged, nreq>>
  /\ UNCHANGED lvars

gs_setex(p) == \E ok \in BOOLEAN : gs_redisSetex(p, ok)

\* return cached / return value
gs_done(p) ==
  /\ cpc[p] = "gs_done"
  /\ GotoC(p, "idle", IdleCLoc)
  /\ UNCHANGED <<store, l1, l2, redis, now, writer, purged, nreq>>
  /\ UNCHANGED lvars

(***************************************************************************)
(* getSettings(Settings, keys, defaultValues): the batch read.  Every key  *)
(* is given the same default d.                                            *)
(***************************************************************************)
KeyLists == {<<"k1">>, <<"k2">>, <<"k1", "k2">>, <<"k2", "k1">>}

\* defaultValues[key] || null
DefaultOrNull(d) == IF Truthy(d) THEN d ELSE Null

\* the cache loop has handled the head of items: next key, or the query, or return
AfterGet(p, l) ==
  LET m == [l EXCEPT !.items = Tail(l.items)]
  IN GotoC(p, IF m.items # <<>> THEN "gm_get"
              ELSE IF m.fetch # <<>> THEN "gm_find" ELSE "gm_done", m)

\* getSettings is called
gm_start(p) ==
  \E w \in Workers, keys \in KeyLists, d \in Defaults :
    /\ CanStartC(p)
    /\ nreq' = nreq + 1
    /\ GotoC(p, "gm_get", [IdleCLoc EXCEPT !.op = "getSettings", !.w = w, !.keys = keys,
                                           !.items = keys, !.def = d])
    /\ UNCHANGED <<store, l1, l2, redis, now, writer, purged>>
    /\ UNCHANGED lvars

\* const cached = await settingsCache.get(key), L1; cached !== null ? results[key] = cached
\*                                                                  : keysToFetch.push(key)
gm_get(p) ==
  /\ cpc[p] = "gm_get"
  /\ LET k == Head(cloc[p].items)
         e == l1[cloc[p].w][k]
     IN IF FreshL1(e, now)
        THEN IF e.value # Null
             THEN AfterGet(p, [cloc[p] EXCEPT !.res[k] = e.value])
             ELSE AfterGet(p, [cloc[p] EXCEPT !.fetch = Append(@, k)])
        ELSE IF redis
             THEN GotoC(p, "gm_l2", cloc[p])
             ELSE AfterGet(p, [cloc[p] EXCEPT !.fetch = Append(@, k)])
  /\ UNCHANGED <<store, l1, l2, redis, now, writer, purged, nreq>>
  /\ UNCHANGED lvars

\* settingsCache.get, L2: redis.get; a truthy value populates L1 and is returned
gm_redisGet(p, ok) ==
  /\ cpc[p] = "gm_l2"
  /\ LET k == Head(cloc[p].items)
         e == l2[k]
         redisValue == Parse(e.text)
         l == [cloc[p] EXCEPT !.err = @ \/ ~ok]
     IN IF ok /\ LiveL2(e, now) /\ Truthy(redisValue)
        THEN /\ l1' = [l1 EXCEPT ![cloc[p].w][k] =
                         [has |-> TRUE, value |-> redisValue, timestamp |-> now]]
             /\ purged' = Rewritten(cloc[p].w, k)
             /\ AfterGet(p, [l EXCEPT !.res[k] = redisValue])
        ELSE /\ AfterGet(p, [l EXCEPT !.fetch = Append(@, k)])
             /\ UNCHANGED <<l1, purged>>
  /\ UNCHANGED <<store, l2, redis, now, writer, nreq>>
  /\ UNCHANGED lvars

gm_l2(p) == \E ok \in BOOLEAN : gm_redisGet(p, ok)

\* const settings = await Settings.find({key: {$in: keysToFetch}}).lean(); a found
\* setting's value, or defaultValues[key] || null, is the key's result
gm_find(p) ==
  /\ cpc[p] = "gm_find"
  /\ LET f == cloc[p].fetch
         found == SelectSeq(f, LAMBDA k : store[k].has)
         absent == SelectSeq(f, LAMBDA k : ~store[k].has)
     IN GotoC(p, "gm_set",
              [cloc[p] EXCEPT !.queries = @ + 1,
                              !.items = found \o absent,
                              !.res = [k \in Keys |->
                                         IF Includes(f, k)
                                         THEN IF store[k].has THEN store[k].value
                                              ELSE DefaultOrNull(cloc[p].def)
                                         ELSE cloc[p].res[k]]])
  /\ UNCHANGED <<store, l1, l2, redis, now, writer, purged, nreq>>
  /\ UNCHANGED lvars

\* await settingsCache.set(key, results[key]), L1
gm_set(p) ==
  /\ cpc[p] = "gm_set"
  /\ LET k == Head(cloc[p].items)
         rest == [cloc[p] EXCEPT !.items = Tail(cloc[p].items)]
     IN /\ l1' = [l1 EXCEPT ![cloc[p].w][k] =
                    [has |-> TRUE, value |-> cloc[p].res[k], timestamp |-> now]]
        /\ purged' = Rewritten(cloc[p].w, k)
        /\ IF redis
           THEN GotoC(p, "gm_setex", cloc[p])
           ELSE GotoC(p, IF rest.items # <<>> THEN "gm_set" ELSE "gm_done", rest)
  /\ UNCHANGED <<store, l2, redis, now, writer, nreq>>
  /\ UNCHANGED lvars

\* settingsCache.set, L2: redis.setex, errors caught
gm_redisSetex(p, ok) ==
  /\ cpc[p] = "gm_setex"
  /\ LET k == Head(cloc[p].items)
         rest == [cloc[p] EXCEPT !.items = Tail(cloc[p].items), !.err = @ \/ ~ok]
     IN /\ l2' = IF ok
                 THEN [l2 EXCEPT ![k] = [has |-> TRUE, text |-> Stringify(cloc[p].res[k]),
                                         expires |-> now + REDIS_TTL]]
                 ELSE l2
        /\ GotoC(p, IF rest.items # <<>> THEN "gm_set" ELSE "gm_done", rest)
  /\ UNCHANGED <<store, l1, redis, now, writer, purged, nreq>>
  /\ UNCHANGED lvars

gm_setex(p) == \E ok \in BOOLEAN : gm_redisSetex(p, ok)

\* return results
gm_done(p) ==
  /\ cpc[p] = "gm_done"
  /\ GotoC(p, "idle", IdleCLoc)
  /\ UNCHANGED <<store, l1, l2, redis, now, writer, purged, nreq>>
  /\ UNCHANGED lvars

(***************************************************************************)
(* updateSettings: PUT /api/admin/settings, a single {key, value} or a     *)
(* batch [{key, value}, ...]                                               *)
(***************************************************************************)
UpdateBodies ==
  {<<[key |-> k, value |-> v]>> : k \in Keys, v \in Vals}
    \cup {<<[key |-> "k1", value |-> v], [key |-> "k2", value |-> v]>> : v \in Vals}

\* let setting = await Settings.findOne({key})  (of the first item)
us_find(p) ==
  \E body \in UpdateBodies :
    /\ CanStartC(p)
    /\ nreq' = nreq + 1
    /\ GotoC(p, "us_save", [IdleCLoc EXCEPT !.op = "updateSettings", !.items = body])
    /\ UNCHANGED <<store, l1, l2, redis, now, writer, purged>>
    /\ UNCHANGED lvars

\* setting.value = value; await setting.save()  /  await Settings.create({key, value})
us_save(p) ==
  /\ cpc[p] = "us_save"
  /\ LET it == Head(cloc[p].items)
     IN /\ store' = [store EXCEPT ![it.key] = [has |-> TRUE, value |-> it.value]]
        /\ writer' = [writer EXCEPT ![it.key] = p]
        /\ cpc' = [cpc EXCEPT ![p] = IF Len(cloc[p].items) > 1 THEN "us_save" ELSE "us_done"]
        /\ cloc' = [NoteStoreWrite(cloc, it.key) EXCEPT ![p].items = Tail(cloc[p].items)]
  /\ UNCHANGED <<l1, l2, redis, now, purged, nreq>>
  /\ UNCHANGED lvars

\* return res.json(...)
us_done(p) ==
  /\ cpc[p] = "us_done"
  /\ writer' = [k \in Keys |-> IF writer[k] = p THEN 0 ELSE writer[k]]
  /\ GotoC(p, "idle", IdleCLoc)
  /\ UNCHANGED <<store, l1, l2, redis, now, purged, nreq>>
  /\ UNCHANGED lvars

(***************************************************************************)
(* invalidateSettingCache(key): settingsCache.delete(key) for a key,       *)
(* settingsCache.clear() without one.  No handler of the repository calls  *)
(* it; it is part of the cache interface only.                             *)
(***************************************************************************)
NoKey == "none"

KeySeq == <<"k1", "k2">>

\* memoryCache.delete(cacheKey)  /  memoryCache.clear()
inv_l1(p) ==
  \E w \in Workers, k \in Keys \cup {NoKey} :
    /\ CanStartC(p)
    /\ nreq' = nreq + 1
    /\ l1' = IF k # NoKey THEN [l1 EXCEPT ![w][k] = NoEntry]
             ELSE [l1 EXCEPT ![w] = [j \in Keys |-> NoEntry]]
    /\ GotoC(p, IF ~redis THEN "inv_done" ELSE IF k # NoKey THEN "inv_del" ELSE "inv_keys",
             [IdleCLoc EXCEPT !.op = "invalidateSettingCache", !.w = w, !.key = k,
                              !.stable = TRUE])
    /\ purged' = purged \ {<<w, j, "peer">> : j \in IF k # NoKey THEN {k} ELSE Keys}
    /\ UNCHANGED <<store, l2, redis, now, writer>>
    /\ UNCHANGED lvars

\* try { await this.redis.del(cacheKey) } catch (error) { console.error(...) }
inv_redisDel(p, ok) ==
  /\ cpc[p] = "inv_del"
  /\ l2' = IF ok THEN [l2 EXCEPT ![cloc[p].key] = NoShared] ELSE l2
  /\ GotoC(p, "inv_done", cloc[p])
  /\ UNCHANGED <<store, l1, redis, now, writer, purged, nreq>>
  /\ UNCHANGED lvars

inv_del(p) == \E ok \in BOOLEAN : inv_redisDel(p, ok)

\* const keys = await this.redis.keys('settings:*'); if (keys.length > 0) ...
inv_redisKeys(p, ok) ==
  /\ cpc[p] = "inv_keys"
  /\ LET keys == SelectSeq(KeySeq, LAMBDA k : LiveL2(l2[k], now))
     IN IF ok /\ Len(keys) > 0
        THEN GotoC(p, "inv_delall", [cloc[p] EXCEPT !.items = keys])
        ELSE GotoC(p, "inv_done", cloc[p])
  /\ UNCHANGED <<store, l1, l2, redis, now, writer, purged, nreq>>
  /\ UNCHANGED lvars

inv_keys(p) == \E ok \in BOOLEAN : inv_redisKeys(p, ok)

\* await this.redis.del(...keys), errors caught
inv_delall(p) ==
  /\ cpc[p] = "inv_delall"
  /\ \E ok \in BOOLEAN :
       l2' = IF ok
             THEN [k \in Keys |-> IF Includes(cloc[p].items, k) THEN NoShared ELSE l2[k]]
             ELSE l2
  /\ GotoC(p, "inv_done", cloc[p])
  /\ UNCHANGED <<store, l1, redis, now, writer, purged, nreq>>
  /\ UNCHANGED lvars

\* an invalidation of key k (of every key: NoKey) that saw no store write returns
NoteInvalidated(l, k) ==
  [q \in Procs |->
     IF l[q].op = "getSetting" /\ cpc[q] = "gs_set" /\ ~l[q].stable
        /\ (k = NoKey \/ l[q].key = k)
     THEN [l[q] EXCEPT !.raced = TRUE] ELSE l[q]]

\* invalidateSettingCache resolves
inv_done(p) ==
  /\ cpc[p] = "inv_done"
  /\ purged' = IF cloc[p].key # NoKey
                THEN purged \cup {<<cloc[p].w, cloc[p].key>>}
                            \cup Outlived(cloc[p].w, cloc[p].key)
                ELSE purged
  /\ cpc' = [cpc EXCEPT ![p] = "idle"]
  /\ cloc' = [(IF cloc[p].stable THEN NoteInvalidated(cloc, cloc[p].key) ELSE cloc)
                EXCEPT ![p] = IdleCLoc]
  /\ UNCHANGED <<store, l1, l2, redis, now, writer, nreq>>
  /\ UNCHANGED lvars

(***************************************************************************)
(* Time passes.                                                            *)
(***************************************************************************)
Tick ==
  /\ now < MaxNow
  /\ now' = now + 1
  /\ UNCHANGED <<store, l1, l2, redis, cpc, cloc, writer, purged, nreq>>
  /\ UNCHANGED lvars

NextCache ==
  \/ \E p \in Procs :
       \/ gs_l1(p) \/ gs_l2(p) \/ gs_find(p) \/ gs_set(p) \/ gs_setex(p) \/ gs_done(p)
       \/ us_find(p) \/ us_save(p) \/ us_done(p)
  \/ Tick

InitCache ==
  /\ LedgerInit("fresh")
  /\ \E c \in CacheScenarios, redisOn \in BOOLEAN : CacheInit(c, redisOn)

SpecCache == InitCache /\ [][NextCache]_vars

(***************************************************************************)
(* The cache interface with invalidation, one call at a time, started with *)
(* k1 cached by worker 1 and in Redis.                                     *)
(***************************************************************************)
NextInvalidate ==
  \/ \E p \in {1} :
       \/ gs_l1(p) \/ gs_l2(p) \/ gs_find(p) \/ gs_set(p) \/ gs_setex(p) \/ gs_done(p)
       \/ us_find(p) \/ us_save(p) \/ us_done(p)
       \/ inv_l1(p) \/ inv_del(p) \/ inv_keys(p) \/ inv_delall(p) \/ inv_done(p)
  \/ Tick

InitInvalidate ==
  /\ LedgerInit("fresh")
  /\ \E c \in {"warm", "stale"}, redisOn \in BOOLEAN : CacheInit(c, redisOn)

SpecInvalidate == InitInvalidate /\ [][NextInvalidate]_vars

(***************************************************************************)
(* The cluster: every worker process has its own memoryCache.  Both        *)
(* workers have read k1 = 1 through getSetting; the store holds that value *)
(* still, or updateSettings has since written k1 := 0.                     *)
(***************************************************************************)
InitCluster ==
  /\ LedgerInit("fresh")
  /\ \E v \in {0, 1}, redisOn \in BOOLEAN :
       /\ store = [k \in Keys |-> IF k = "k1" THEN [has |-> TRUE, value |-> v] ELSE NoSetting]
       /\ l1 = [w \in Workers |-> [k \in Keys |->
                  IF k = "k1" THEN [has |-> TRUE, value |-> 1, timestamp |-> 0] ELSE NoEntry]]
       /\ l2 = [k \in Keys |->
                  IF redisOn /\ k = "k1"
                  THEN [has |-> TRUE, text |-> Stringify(1), expires |-> REDIS_TTL]
                  ELSE NoShared]
       /\ redis = redisOn
       /\ now = 0
       /\ cpc = [p \in Procs |-> "idle"]
       /\ cloc = [p \in Procs |-> IdleCLoc]
       /\ writer = [k \in Keys |-> 0 - 1]
       /\ purged = {}

SpecCluster == InitCluster /\ [][NextInvalidate]_vars

(***************************************************************************)
(* getSetting with Redis configured and every Redis command succeeding,    *)
(* one call at a time; the store holds k1 with a falsy or a truthy value   *)
(* and nothing is cached at the start.                                     *)
(***************************************************************************)
NextHealthy ==
  \/ \E p \in {1} :
       \/ gs_l1(p) \/ gs_redisGet(p, TRUE) \/ gs_find(p) \/ gs_set(p)
       \/ gs_redisSetex(p, TRUE) \/ gs_done(p)
  \/ Tick

InitHealthy ==
  /\ LedgerInit("fresh")
  /\ \E v \in {0, 1, 2} :
       /\ store = [k \in Keys |-> IF k = "k1" THEN [has |-> TRUE, value |-> v] ELSE NoSetting]
       /\ l1 = [w \in Workers |-> [k \in Keys |-> NoEntry]]
       /\ l2 = [k \in Keys |-> NoShared]
       /\ redis = TRUE
       /\ now = 0
       /\ cpc = [p \in Procs |-> "idle"]
       /\ cloc = [p \in Procs |-> IdleCLoc]
       /\ writer = [k \in Keys |-> 0 - 1]
       /\ purged = {}

SpecHealthy == InitHealthy /\ [][NextHealthy]_vars

(***************************************************************************)
(* getSetting and getSettings side by side.  Redis is not configured, so   *)
(* the two worker processes share the store only; both start with the same *)
(* memoryCache content (empty, or k1 cached a moment ago), the store is    *)
(* not written and the clock stands still: a call on worker 1 and a call   *)
(* on worker 2 therefore run from the same store and cache state.          *)
(***************************************************************************)
NextAgree ==
  \E p \in Procs :
    \/ gs_l1(p) \/ gs_find(p) \/ gs_set(p) \/ gs_done(p)
    \/ gm_start(p) \/ gm_get(p) \/ gm_find(p) \/ gm_set(p) \/ gm_done(p)

InitAgree ==
  /\ LedgerInit("fresh")
  /\ \E v \in {0, 1}, cached \in BOOLEAN :
       /\ store = [k \in Keys |-> IF k = "k1" THEN [has |-> TRUE, value |-> v] ELSE NoSetting]
       /\ l1 = [w \in Workers |-> [k \in Keys |->
                  IF cached /\ k = "k1" THEN [has |-> TRUE, value |-> v, timestamp |-> 0]
                  ELSE NoEntry]]
       /\ l2 = [k \in Keys |-> NoShared]
       /\ redis = FALSE
       /\ now = 0
       /\ cpc = [p \in Procs |-> "idle"]
       /\ cloc = [p \in Procs |-> IdleCLoc]
       /\ writer = [k \in Keys |-> 0 - 1]
       /\ purged = {}

SpecAgree == InitAgree /\ [][NextAgree]_vars

(***************************************************************************)
(* checkLevelRewards alone, on referral teams large enough for several     *)
(* tiers.  The caller s has some tiers already (each with its level_reward *)
(* Transaction and its reward in the balance); its team has nl active left *)
(* and nr active right members and possibly an inactive one on each side.  *)
(* The members are users outside Users: an evaluation reads only the       *)
(* referrer, side and isActive of an edge.                                 *)
(***************************************************************************)
EvalCounts == {0, 1, 6, 12}

EvalAchieved == {<< >>, <<1>>, <<1, 2>>, <<1, 2, 3>>}

MemberIds == <<"m1", "m2", "m3", "m4", "m5", "m6", "m7", "m8", "m9", "m10", "m11", "m12",
               "m13", "m14", "m15", "m16", "m17", "m18", "m19", "m20", "m21", "m22", "m23",
               "m24", "m25", "m26">>

\* nl + nr active edges of referrer r, then the inactive ones
Team(r, nl, nr, il, ir) ==
  [i \in 1..(nl + nr + il + ir) |->
     Referral(r, MemberIds[i],
              IF i <= nl \/ (nl + nr < i /\ i <= nl + nr + il) THEN "left" ELSE "right",
              i <= nl + nr)]

RECURSIVE RewardTxs(_, _)
RewardTxs(r, levels) ==
  IF levels = << >> THEN << >>
  ELSE <<Tx(r, "level_reward", RewardOf(Head(levels)), "completed")>> \o RewardTxs(r, Tail(levels))

InitEvaluate ==
  /\ \E ach \in EvalAchieved, nl \in EvalCounts, nr \in EvalCounts, il \in {0, 1}, ir \in {0, 1} :
       /\ users = [u \in Users |->
                     IF u = "s"
                     THEN [ActiveUser(NoUser, 60 + SumRewards(ach)) EXCEPT
                             !.totalDeposits = 60, !.achievedLevels = ach]
                     ELSE NoDoc]
       /\ edges = Team("s", nl, nr, il, ir)
       /\ txs = <<Tx("s", "deposit", 60, "completed")>> \o RewardTxs("s", ach)
  /\ deposits = << DepositDoc("s", 60, "approved", TRUE) >>
  /\ withdrawals = << >>
  /\ pc = [p \in Procs |-> "idle"]
  /\ loc = [p \in Procs |-> IdleLoc]
  /\ nreq = 0
  /\ regCredits = [u \in Users |-> IF users[u].registrationDepositVerified THEN 1 ELSE 0]
  /\ lastEval = [u \in Users |-> FALSE]
  /\ refusal = "none"
  /\ CacheInit("cold", TRUE)

NextEvaluate ==
  \E p \in {1} :
    \/ clr_read(p) \/ clr_left(p) \/ clr_right(p) \/ clr_tx(p) \/ clr_save(p)

SpecEvaluate == InitEvaluate /\ [][NextEvaluate]_vars

(***************************************************************************)
(* The two evaluation entry points side by side.  s and a are users with   *)
(* the same record and teams of the same shape, so an evaluation of s and  *)
(* an evaluation of a start from the same state and do not touch each      *)
(* other's documents.  Slot 1 evaluates s through checkLevelRewards and    *)
(* slot 2 evaluates a through processLevelRewards, so each user is         *)
(* evaluated by one call at a time.                                        *)
(***************************************************************************)
TwinCounts == {0, 1, 6, 12}

TwinAchieved == {<< >>, <<1>>, <<1, 2>>}

InitTwins ==
  /\ \E ach \in TwinAchieved, nl \in TwinCounts, nr \in TwinCounts, il \in {0, 1} :
       /\ users = [u \in Users |->
                     IF u \in {"s", "a"}
                     THEN [ActiveUser(NoUser, 60 + SumRewards(ach)) EXCEPT
                             !.totalDeposits = 60, !.achievedLevels = ach]
                     ELSE NoDoc]
       /\ edges = Team("s", nl, nr, il, 0) \o Team("a", nl, nr, il, 0)
       /\ txs = <<Tx("s", "deposit", 60, "completed")>> \o RewardTxs("s", ach)
                  \o <<Tx("a", "deposit", 60, "completed")>> \o RewardTxs("a", ach)
  /\ deposits = << DepositDoc("s", 60, "approved", TRUE), DepositDoc("a", 60, "approved", TRUE) >>
  /\ withdrawals = << >>
  /\ pc = [p \in Procs |-> "idle"]
  /\ loc = [p \in Procs |-> IdleLoc]
  /\ nreq = 0
  /\ regCredits = [u \in Users |-> IF users[u].registrationDepositVerified THEN 1 ELSE 0]
  /\ lastEval = [u \in Users |-> FALSE]
  /\ refusal = "none"
  /\ CacheInit("cold", TRUE)

NextTwins ==
  \/ \E p \in {1} :
       \/ (clr_read(p) /\ loc'[p].u = "s")
       \/ clr_left(p) \/ clr_right(p) \/ clr_tx(p) \/ clr_save(p)
  \/ \E p \in {2} :
       \/ (plr_call(p) /\ loc'[p].u = "a")
       \/ plr_read(p) \/ plr_left(p) \/ plr_right(p) \/ plr_tx(p) \/ plr_save(p)
       \/ plr_return(p)

SpecTwins == InitTwins /\ [][NextTwins]_vars

(***************************************************************************)
(* createWithdrawal alone, every request inside the lock period            *)
(* (accountAge < withdrawLockDays), on an account that has been credited   *)
(* some deposits.                                                          *)
(***************************************************************************)
LockBalances == {0, 40, 60, 65, 100, 105, 125, 165, 185}

cw_locked(p) ==
  \E u \in WalletUsers, amt \in WdrAmounts, withdrawalsEnabled \in BOOLEAN :
    createWithdrawal(p, u, amt, withdrawalsEnabled, TRUE)

InitLocked ==
  /\ \E b \in LockBalances :
       users = [u \in Users |->
                  IF u = "s" THEN [ActiveUser(NoUser, b) EXCEPT !.totalDeposits = 185]
                  ELSE NoDoc]
  /\ edges = << >>
  /\ deposits = << DepositDoc("s", 60, "approved", TRUE), DepositDoc("s", 125, "approved", FALSE) >>
  /\ withdrawals = << >>
  /\ txs = << Tx("s", "deposit", 60, "completed"), Tx("s", "deposit", 125, "completed") >>
  /\ pc = [p \in Procs |-> "idle"]
  /\ loc = [p \in Procs |-> IdleLoc]
  /\ nreq = 0
  /\ regCredits = [u \in Users |-> IF users[u].registrationDepositVerified THEN 1 ELSE 0]
  /\ lastEval = [u \in Users |-> FALSE]
  /\ refusal = "none"
  /\ CacheInit("cold", TRUE)

NextLocked ==
  \E p \in {1} : cw_locked(p) \/ cw_wd(p) \/ cw_usave(p) \/ cw_tx(p)

SpecLocked == InitLocked /\ [][NextLocked]_vars

(***************************************************************************)
(* Batch reads alone, one call at a time, while time passes.               *)
(***************************************************************************)
NextBatch ==
  \/ \E p \in {1} :
       \/ gm_start(p) \/ gm_get(p) \/ gm_l2(p) \/ gm_find(p) \/ gm_set(p) \/ gm_setex(p)
       \/ gm_done(p)
  \/ Tick

InitBatch ==
  /\ LedgerInit("fresh")
  /\ \E c \in {"cold", "warm"}, redisOn \in BOOLEAN : CacheInit(c, redisOn)

SpecBatch == InitBatch /\ [][NextBatch]_vars

(***************************************************************************)
(* The cache interface while the shared cache is out of service: either no *)
(* Redis client is configured (this.redis is null) or every Redis command  *)
(* rejects.  One call at a time; the Redis entries of the warm start are   *)
(* there but cannot be read.                                               *)
(***************************************************************************)
NextDegraded ==
  \/ \E p \in {1} :
       \/ gs_l1(p) \/ gs_redisGet(p, FALSE) \/ gs_find(p) \/ gs_set(p)
       \/ gs_redisSetex(p, FALSE) \/ gs_done(p)
       \/ gm_start(p) \/ gm_get(p) \/ gm_redisGet(p, FALSE) \/ gm_find(p) \/ gm_set(p)
       \/ gm_redisSetex(p, FALSE) \/ gm_done(p)
       \/ inv_l1(p) \/ inv_redisDel(p, FALSE) \/ inv_redisKeys(p, FALSE) \/ inv_done(p)
  \/ Tick

InitDegraded ==
  /\ LedgerInit("fresh")
  /\ \E c \in {"cold", "warm"}, redisOn \in BOOLEAN : CacheInit(c, redisOn)

SpecDegraded == InitDegraded /\ [][NextDegraded]_vars

(***************************************************************************)
(* Reads, store writes and invalidations overlapping.  The start is either *)
(* quiet or has a getSetting on worker 1 in flight that has missed both    *)
(* cache levels and is about to query the store.                           *)
(***************************************************************************)
NextOverlap ==
  \E p \in Procs :
    \/ gs_l1(p) \/ gs_l2(p) \/ gs_find(p) \/ gs_set(p) \/ gs_setex(p) \/ gs_done(p)
    \/ us_find(p) \/ us_save(p) \/ us_done(p)
    \/ inv_l1(p) \/ inv_del(p) \/ inv_keys(p) \/ inv_delall(p) \/ inv_done(p)

InitOverlap ==
  /\ LedgerInit("fresh")
  /\ \E redisOn \in BOOLEAN, k \in Keys \cup {NoKey} :
       /\ store = [j \in Keys |-> IF j = "k1" THEN [has |-> TRUE, value |-> 1] ELSE NoSetting]
       /\ l1 = [w \in Workers |-> [j \in Keys |-> NoEntry]]
       /\ l2 = [j \in Keys |-> NoShared]
       /\ redis = redisOn
       /\ now = 0
       /\ cpc = [p \in Procs |-> IF p = 1 /\ k # NoKey THEN "gs_find" ELSE "idle"]
       /\ cloc = [p \in Procs |->
                    IF p = 1 /\ k # NoKey
                    THEN [IdleCLoc EXCEPT !.op = "getSetting", !.w = 1, !.key = k, !.def = 1,
                                          !.settled = TRUE, !.stable = TRUE,
                                          !.exp = IF store[k].has THEN store[k].value ELSE 1]
                    ELSE IdleCLoc]
       /\ writer = [j \in Keys |-> 0 - 1]
       /\ purged = {}

SpecOverlap == InitOverlap /\ [][NextOverlap]_vars

(***************************************************************************)
(* Specification: any number of requests in flight, steps interleaved.     *)
(***************************************************************************)
Next ==
  \E p \in Procs :
    \/ clr_read(p) \/ clr_left(p) \/ clr_right(p) \/ clr_tx(p) \/ clr_save(p)
    \/ plr_read(p) \/ plr_left(p) \/ plr_right(p) \/ plr_tx(p) \/ plr_save(p)
    \/ vr_read(p) \/ vr_dsave(p) \/ vr_uread(p) \/ vr_usave(p) \/ vr_edge(p)
    \/ vr_find(p) \/ vr_tx(p)
    \/ reg_create(p) \/ reg_count(p) \/ reg_edge(p)
    \/ srd_read(p) \/ srd_usave(p) \/ srd_dep(p) \/ srd_tx(p)
    \/ cd_dep(p) \/ cd_tx(p)
    \/ ud_read(p) \/ ud_dsave(p) \/ ud_uread(p) \/ ud_usave(p) \/ ud_tx(p)
    \/ cw_read(p) \/ cw_wd(p) \/ cw_usave(p) \/ cw_tx(p)
    \/ uw_read(p) \/ uw_wsave(p) \/ uw_uread(p) \/ uw_usave(p) \/ uw_tx(p)
    \/ cb_read(p) \/ cb_usave(p) \/ cb_tx(p)
    \/ sw_read(p) \/ sw_usave(p) \/ sw_tx(p)
    \/ uu_read(p) \/ uu_save(p)

Init == (\E scn \in Scenarios : LedgerInit(scn)) /\ CacheInit("cold", TRUE)

Spec == Init /\ [][Next]_vars

(***************************************************************************)
(* Registrations, submissions and verifications handled one after another: *)
(* a single request slot, so no two requests overlap.                      *)
(***************************************************************************)
NextSerial ==
  \E p \in {1} :
    \/ reg_create(p) \/ reg_count(p) \/ reg_edge(p)
    \/ srd_read(p) \/ srd_usave(p) \/ srd_dep(p) \/ srd_tx(p)
    \/ vr_read(p) \/ vr_dsave(p) \/ vr_uread(p) \/ vr_usave(p) \/ vr_edge(p)
    \/ vr_find(p) \/ vr_tx(p)
    \/ plr_read(p) \/ plr_left(p) \/ plr_right(p) \/ plr_tx(p) \/ plr_save(p)

SpecSerial == Init /\ [][NextSerial]_vars

(***************************************************************************)
(* Every handler, one request at a time: the request holds the only slot   *)
(* until it has returned.  An evaluation started by checkLevelRewards then *)
(* never finds a tier to award (every edge activation has already run      *)
(* processLevelRewards), so its award steps are not part of this relation. *)
(***************************************************************************)
NextSolo ==
  \E p \in {1} :
    \/ clr_read(p) \/ clr_left(p) \/ clr_right(p)
    \/ plr_read(p) \/ plr_left(p) \/ plr_right(p) \/ plr_tx(p) \/ plr_save(p)
    \/ vr_read(p) \/ vr_dsave(p) \/ vr_uread(p) \/ vr_usave(p) \/ vr_edge(p)
    \/ vr_find(p) \/ vr_tx(p)
    \/ reg_create(p) \/ reg_count(p) \/ reg_edge(p)
    \/ srd_read(p) \/ srd_usave(p) \/ srd_dep(p) \/ srd_tx(p)
    \/ cd_dep(p) \/ cd_tx(p)
    \/ ud_read(p) \/ ud_dsave(p) \/ ud_uread(p) \/ ud_usave(p) \/ ud_tx(p)
    \/ cw_read(p) \/ cw_wd(p) \/ cw_usave(p) \/ cw_tx(p)
    \/ uw_read(p) \/ uw_wsave(p) \/ uw_uread(p) \/ uw_usave(p) \/ uw_tx(p)
    \/ cb_read(p) \/ cb_usave(p) \/ cb_tx(p)
    \/ sw_read(p) \/ sw_usave(p) \/ sw_tx(p)
    \/ uu_read(p) \/ uu_save(p)

SpecSolo == Init /\ [][NextSolo]_vars

(***************************************************************************)
(* Registration-deposit verifications, one at a time, in which a store     *)
(* operation of the level-reward engine may fail.                          *)
(***************************************************************************)
NextFaulty ==
  \E p \in {1} :
    \/ vr_read(p) \/ vr_dsave(p) \/ vr_uread(p) \/ vr_usave(p) \/ vr_edge(p)
    \/ vr_find(p) \/ vr_tx(p)
    \/ plr_read(p) \/ plr_left(p) \/ plr_right(p) \/ plr_tx(p) \/ plr_save(p)
    \/ plr_throws(p)

SpecFaulty == Init /\ [][NextFaulty]_vars

(***************************************************************************)
(* Registrations, registration-deposit submissions (some of them without   *)
(* a transaction hash) and their verifications, one at a time.             *)
(***************************************************************************)
NextSubmit ==
  \E p \in {1} :
    \/ reg_create(p) \/ reg_count(p) \/ reg_edge(p)
    \/ srd_read(p) \/ srd_usave(p) \/ srd_dep(p) \/ srd_dep_rejects(p) \/ srd_tx(p)
    \/ vr_read(p) \/ vr_dsave(p) \/ vr_uread(p) \/ vr_usave(p) \/ vr_edge(p)
    \/ vr_find(p) \/ vr_tx(p)
    \/ plr_read(p) \/ plr_left(p) \/ plr_right(p) \/ plr_tx(p) \/ plr_save(p)

SpecSubmit == Init /\ [][NextSubmit]_vars

\* in SpecSolo no checkLevelRewards evaluation reaches an award step
SoloEvaluationsAwardNothing == \A p \in Procs : pc[p] \notin {"clr_tx", "clr_save"}

Idle == \A p \in Procs : pc[p] = "idle"

TierLevels == {LEVEL_REWARDS[i].level : i \in 1..Len(LEVEL_REWARDS)} \ {0}

(***************************************************************************)
(* C1: under any interleaving of checkLevelRewards and the                 *)
(* processLevelRewards call of a registration approval, no user ever has   *)
(* more than one level_reward Transaction for the same tier.               *)
(***************************************************************************)
LevelRewardTxs(u, level) ==
  {i \in 1..Len(txs) : txs[i].user = u /\ txs[i].type = "level_reward"
                       /\ txs[i].amount = RewardOf(level)}

C1_TierCreditedOnce ==
  \A u \in Users : \A level \in TierLevels : Cardinality(LevelRewardTxs(u, level)) <= 1

(***************************************************************************)
(* C2: an evaluation that starts after an evaluation of the same user has  *)
(* returned, with no edge of that user created or flipped since that first *)
(* evaluation started, finds no newly achieved level and writes neither    *)
(* the user's document nor the Transaction collection.                     *)
(***************************************************************************)
C2_SecondEvaluationIsEmpty ==
  [][\A q \in Procs :
       (pc[q] \in EvalLabels /\ loc[q].after) =>
          /\ loc[q].newly = <<>>
          /\ pc'[q] \notin {"clr_tx", "clr_save", "plr_tx", "plr_save"}
          /\ (pc'[q] # pc[q] => users'[loc[q].ev] = users[loc[q].ev] /\ txs' = txs)]_vars

\* a second evaluation is running for a user whose first evaluation awarded a level
C2_Witness ==
  \E q \in Procs : /\ pc[q] \in EvalLabels /\ loc[q].after
                   /\ Includes(users[loc[q].ev].achievedLevels, 1)
                   /\ pc[q] = "clr_right"

(***************************************************************************)
(* C3: when an update of key k has returned, no cache level holds an entry *)
(* for k any more, and a getSetting of k that started after the update     *)
(* returned (no other write of k since) returns the value in the store.    *)
(***************************************************************************)
StoredOr(k, d) == IF store[k].has THEN store[k].value ELSE d

C3_ReadAfterUpdateIsFresh ==
  /\ \A p \in Procs : \A k \in Keys :
       (cpc[p] = "us_done" /\ writer[k] = p) =>
          (~l2[k].has /\ \A w \in Workers : ~l1[w][k].has)
  /\ \A p \in Procs :
       (cpc[p] = "gs_done" /\ cloc[p].settled /\ cloc[p].stable) =>
          cloc[p].ret = StoredOr(cloc[p].key, cloc[p].def)

(***************************************************************************)
(* C4: no user's balance is ever negative.                                 *)
(***************************************************************************)
C4_BalanceNonNegative == \A u \in Users : users[u].balance >= 0

\* an accepted withdrawal has debited a user's whole balance
C4_Witness ==
  \E i \in 1..Len(withdrawals) :
    /\ withdrawals[i].status = "pending"
    /\ users[withdrawals[i].user].balance = 0
    /\ \E j \in 1..Len(txs) : txs[j].type = "withdrawal" /\ txs[j].user = withdrawals[i].user

(***************************************************************************)
(* C5: whenever no request is in progress, each user's balance equals the  *)
(* completed deposit, level_reward, bonus and daily_reward Transactions    *)
(* minus the pending or completed withdrawal Transactions of that user.    *)
(***************************************************************************)
RECURSIVE LedgerSum(_, _)
LedgerSum(ts, u) ==
  IF ts = <<>> THEN 0
  ELSE LET t == Head(ts)
           c == IF t.user # u THEN 0
                ELSE IF t.type \in {"deposit", "level_reward", "bonus", "daily_reward"}
                        /\ t.status = "completed" THEN t.amount
                ELSE IF t.type = "withdrawal" /\ t.status \in {"pending", "completed"}
                     THEN 0 - t.amount
                ELSE 0
       IN c + LedgerSum(Tail(ts), u)

C5_BalanceMatchesLedger ==
  Idle => \A u \in Users : users[u].balance = LedgerSum(txs, u)

(***************************************************************************)
(* C6: a verification (updateDeposit or verifyRegistrationDeposit) of a    *)
(* deposit whose status was already approved or rejected when the handler  *)
(* loaded it changes no document of any collection.                        *)
(***************************************************************************)
VerifyOps == {"updateDeposit", "verifyRegistrationDeposit"}

C6_ResolvedDepositUntouched ==
  [][\A p \in Procs :
       (loc[p].op \in VerifyOps /\ loc[p].pre \in {"approved", "rejected"}
        /\ (pc'[p] # pc[p] \/ loc'[p] # loc[p]))
       => UNCHANGED db]_vars

(***************************************************************************)
(* C7: a user's balance and totalDeposits are credited by a registration   *)
(* deposit approval at most once in the user's lifetime.                   *)
(***************************************************************************)
C7_SingleRegistrationCredit == \A u \in Users : regCredits[u] <= 1

(***************************************************************************)
(* C8: when registrations are handled one after another, the edges of each *)
(* sponsor, in creation order, have the sides left, right, left, ...       *)
(* whatever the activation state of the earlier edges.                     *)
(***************************************************************************)
EdgesOf(r) == SelectSeq(edges, LAMBDA e : e.referrer = r)

C8_SidesAlternate ==
  \A r \in Users :
    \A i \in 1..Len(EdgesOf(r)) :
      EdgesOf(r)[i].side = IF i % 2 = 1 THEN "left" ELSE "right"

\* a third edge was placed after an earlier referral had been activated and
\* while another was inactive
C8_Witness ==
  \E r \in Users :
    /\ Len(EdgesOf(r)) >= 3
    /\ EdgesOf(r)[3].side = "left"
    /\ \E i \in 1..2 : EdgesOf(r)[i].isActive
    /\ \E i \in 1..2 : ~EdgesOf(r)[i].isActive

(***************************************************************************)
(* C9: in every step, for every user, the set of levels in achievedLevels  *)
(* after the step contains the set before it.                              *)
(***************************************************************************)
C9_AchievedLevelsMonotone ==
  [][\A u \in Users :
       Range(users[u].achievedLevels) \subseteq Range(users'[u].achievedLevels)]_vars

\* a user holding a level has had the registration deposit rejected afterwards
C9_Witness ==
  \E u \in Users : /\ users[u].achievedLevels # <<>>
                   /\ ~users[u].registrationDepositVerified

(***************************************************************************)
(* C10: every user's achievedLevels holds only levels 1..12 of the tier    *)
(* table and holds no level twice.                                         *)
(***************************************************************************)
C10_LevelsFormASet ==
  \A u \in Users :
    LET a == users[u].achievedLevels
    IN /\ \A i \in 1..Len(a) : a[i] \in TierLevels
       /\ \A i, j \in 1..Len(a) : a[i] = a[j] => i = j

(***************************************************************************)
(* C11: a withdrawal request whose amount exceeds the balance read by the  *)
(* handler is refused; the refusal is the insufficient-balance error when  *)
(* the withdrawals switch and the lock check let the request through; the  *)
(* refused request changes no User, creates no Withdrawal and no           *)
(* Transaction and starts no handler step.                                 *)
(***************************************************************************)
WithdrawalErrors == {"WithdrawalsDisabled", "Locked", "InsufficientBalance"}

CountTx(ts, u, ty, amt, st) ==
  Cardinality({i \in 1..Len(ts) : ts[i] = Tx(u, ty, amt, st)})

C12_RejectionRestoresBalance ==
  [][\A p \in Procs :
       LET w == withdrawals[loc[p].id]
           u == loc[p].u
       IN (loc[p].op = "updateWithdrawal" /\ loc[p].status = "rejected"
           /\ loc[p].pre = "pending") =>
            /\ (pc[p] = "uw_usave" /\ pc'[p] = "uw_tx"
                /\ users[u].balance = w.before - w.amount) =>
                   users'[u].balance = w.before
            /\ (pc[p] = "uw_tx" /\ pc'[p] = "idle") =>
                   /\ CountTx(txs', u, "withdrawal", w.amount, "pending")
                        = CountTx(txs, u, "withdrawal", w.amount, "pending") - 1
                   /\ CountTx(txs', u, "withdrawal", w.amount, "rejected")
                        = CountTx(txs, u, "withdrawal", w.amount, "rejected") + 1]_vars

\* a rejected withdrawal whose user is back at the balance before the request
C12_Witness ==
  /\ Idle
  /\ \E i \in 1..Len(withdrawals) :
       LET w == withdrawals[i]
       IN /\ w.status = "rejected" /\ w.amount > 0
          /\ users[w.user].balance = w.before
          /\ CountTx(txs, w.user, "withdrawal", w.amount, "rejected") = 1
          /\ CountTx(txs, w.user, "withdrawal", w.amount, "pending") = 0

(***************************************************************************)
(* C13: the first getSetting(key, default) a worker starts after an        *)
(* invalidateSettingCache(key) of that worker has returned yields the      *)
(* value the store holds for key, or the default when the store has none.  *)
(***************************************************************************)
C13_ReadAfterInvalidateIsCurrent ==
  \A p \in Procs :
    (cpc[p] = "gs_done" /\ cloc[p].purged /\ cloc[p].stable) =>
       cloc[p].ret = StoredOr(cloc[p].key, cloc[p].def)

(***************************************************************************)
(* C14: inside one registration-deposit approval (requests one at a time)  *)
(* the user is credited and active before the edge step, the inbound edge  *)
(* is active before the sponsor is evaluated, no deposit Transaction       *)
(* changes before the last step, and when that last step is due the        *)
(* sponsor holds every tier its active edges satisfy, each with a          *)
(* level_reward Transaction.                                               *)
(***************************************************************************)
PlrLabels == {"plr_read", "plr_left", "plr_right", "plr_tx", "plr_save"}

DepositTxs(ts) == SelectSeq(ts, LAMBDA t : t.type = "deposit")

InboundActive(u) ==
  FirstEdgeOf(edges, u) # 0 => edges[FirstEdgeOf(edges, u)].isActive

SponsorSettled(r) ==
  /\ NextAward(users[r].achievedLevels, CountActive(edges, r, "left"),
               CountActive(edges, r, "right")) = 0
  /\ \A i \in 1..Len(users[r].achievedLevels) :
       CountTx(txs, r, "level_reward", RewardOf(users[r].achievedLevels[i]), "completed") >= 1

Approving(p) == loc[p].op = "verifyRegistrationDeposit" /\ loc[p].status = "approved"

C14_CascadeOrder ==
  /\ [](\A p \in Procs : Approving(p) =>
          /\ pc[p] \in {"vr_edge", "vr_find", "vr_tx"} \cup PlrLabels =>
               users[loc[p].u].isActive /\ users[loc[p].u].registrationDepositVerified
          /\ pc[p] \in {"vr_edge", "vr_find"} =>
               users[loc[p].u].balance = loc[p].doc.balance + loc[p].amt
          /\ pc[p] \in {"vr_find", "vr_tx"} \cup PlrLabels => InboundActive(loc[p].u)
          /\ (pc[p] = "vr_tx" /\ FirstEdgeOf(edges, loc[p].u) # 0) =>
               SponsorSettled(edges[FirstEdgeOf(edges, loc[p].u)].referrer))
  /\ [][\A p \in Procs :
          (Approving(p) /\ pc[p] # "vr_tx") => DepositTxs(txs') = DepositTxs(txs)]_vars

\* the approval of a's deposit is about to complete the deposit Transaction and
\* the sponsor already holds level 1 and its reward
C14_Witness ==
  \E p \in Procs :
    /\ Approving(p) /\ pc[p] = "vr_tx"
    /\ FirstEdgeOf(edges, loc[p].u) # 0
    /\ LET r == edges[FirstEdgeOf(edges, loc[p].u)].referrer
       IN /\ users[r].achievedLevels = <<1>>
          /\ users[r].balance = 60 + 11
          /\ CountTx(txs, r, "level_reward", 11, "completed") = 1
    /\ CountTx(txs, loc[p].u, "deposit", loc[p].amt, "pending") = 1

(***************************************************************************)
(* C15: approving a pending registration deposit of amount a for user U    *)
(* sets U.isActive and U.registrationDepositVerified, raises U.balance and *)
(* U.totalDeposits by exactly a (one step of the handler writes the user,  *)
(* no other step touches it), and when the handler returns U's inbound     *)
(* edge is active and the deposit's status is approved.                    *)
(***************************************************************************)
ApprovingPending(p) == Approving(p) /\ loc[p].pre = "pending"

C15_ApprovalEffects ==
  [][\A p \in Procs : ApprovingPending(p) =>
       LET u == loc[p].u IN
         /\ pc[p] = "vr_usave" =>
              users'[u] = [users[u] EXCEPT !.isActive = TRUE,
                                           !.registrationDepositVerified = TRUE,
                                           !.balance = @ + loc[p].amt,
                                           !.totalDeposits = @ + loc[p].amt]
         /\ pc[p] # "vr_usave" => users'[u] = users[u]
         /\ pc'[p] = "idle" =>
              /\ users'[u].isActive /\ users'[u].registrationDepositVerified
              /\ FirstEdgeOf(edges', u) # 0 => edges'[FirstEdgeOf(edges', u)].isActive
              /\ deposits'[loc[p].id].status = "approved"]_vars

C15_Witness ==
  /\ Idle
  /\ users["a"].isActive /\ users["a"].registrationDepositVerified
  /\ users["a"].balance = 60 /\ users["a"].totalDeposits = 60
  /\ Len(edges) >= 1 /\ edges[1].referred = "a" /\ edges[1].isActive
  /\ Len(deposits) >= 2 /\ deposits[2].user = "a" /\ deposits[2].status = "approved"
  /\ CountTx(txs, "a", "deposit", 60, "completed") = 1

(***************************************************************************)
(* C16: rejecting a registration deposit credits nobody: no step of the    *)
(* rejection changes any user's balance, totalDeposits or achievedLevels   *)
(* (the user's and the sponsor's included) or creates a Transaction; when  *)
(* it returns the user has isActive and registrationDepositVerified false, *)
(* the inbound edge is inactive, and a pending deposit Transaction of the  *)
(* user for the deposit's amount has become rejected.                      *)
(***************************************************************************)
Rejecting(p) == loc[p].op = "verifyRegistrationDeposit" /\ loc[p].status = "rejected"

C16_RejectionCreditsNobody ==
  [][\A p \in Procs : Rejecting(p) =>
       LET u == loc[p].u IN
         /\ \A x \in Users :
              /\ users'[x].balance = users[x].balance
              /\ users'[x].totalDeposits = users[x].totalDeposits
              /\ users'[x].achievedLevels = users[x].achievedLevels
         /\ Len(txs') = Len(txs)
         /\ pc[p] \notin PlrLabels /\ pc'[p] \notin PlrLabels
         /\ pc'[p] = "idle" =>
              /\ ~users'[u].isActive /\ ~users'[u].registrationDepositVerified
              /\ FirstEdgeOf(edges', u) # 0 => ~edges'[FirstEdgeOf(edges', u)].isActive
              /\ deposits'[loc[p].id].status = "rejected"
              /\ CountTx(txs, u, "deposit", loc[p].amt, "pending") > 0 =>
                   /\ CountTx(txs', u, "deposit", loc[p].amt, "pending")
                        = CountTx(txs, u, "deposit", loc[p].amt, "pending") - 1
                   /\ CountTx(txs', u, "deposit", loc[p].amt, "rejected")
                        = CountTx(txs, u, "deposit", loc[p].amt, "rejected") + 1]_vars

C16_Witness ==
  /\ Idle
  /\ users["a"].exists /\ ~users["a"].isActive /\ ~users["a"].registrationDepositVerified
  /\ users["a"].balance = 0 /\ users["a"].totalDeposits = 0
  /\ users["s"].balance = 60 /\ users["s"].achievedLevels = <<>>
  /\ Len(edges) >= 1 /\ edges[1].referred = "a" /\ ~edges[1].isActive
  /\ Len(deposits) >= 2 /\ deposits[2].user = "a" /\ deposits[2].status = "rejected"
  /\ CountTx(txs, "a", "deposit", 60, "rejected") = 1
  /\ CountTx(txs, "a", "deposit", 60, "pending") = 0

(***************************************************************************)
(* C17: isRegistrationDeposit fixes the workflow.  A step changes a        *)
(* registration deposit only inside a verifyRegistrationDeposit request    *)
(* for it and a non-registration deposit only inside an updateDeposit      *)
(* request for it; and a step of an updateDeposit request changes nothing  *)
(* but that deposit, its user's balance and totalDeposits and the status   *)
(* of one Transaction: isActive, registrationDepositVerified,              *)
(* achievedLevels and the edges stay as they were.                         *)
(***************************************************************************)
WorkflowOf(d) == IF d.isRegistrationDeposit THEN "verifyRegistrationDeposit" ELSE "updateDeposit"

TxStatusOnly(ts1, ts2) ==
  /\ Len(ts2) = Len(ts1)
  /\ \A i \in 1..Len(ts1) : [ts2[i] EXCEPT !.status = ts1[i].status] = ts1[i]
  /\ Cardinality({i \in 1..Len(ts1) : ts2[i] # ts1[i]}) <= 1

C17_WorkflowByFlag ==
  [][/\ \A id \in 1..Len(deposits) :
          deposits'[id] # deposits[id] =>
             \E p \in Procs : /\ pc[p] # "idle" /\ loc[p].id = id
                              /\ loc[p].op = WorkflowOf(deposits[id])
     /\ \A p \in Procs : loc[p].op = "updateDeposit" =>
          /\ ~deposits[loc[p].id].isRegistrationDeposit
          /\ \A x \in Users :
               users'[x] = [users[x] EXCEPT !.balance = users'[x].balance,
                                            !.totalDeposits = users'[x].totalDeposits]
          /\ \A x \in Users \ {loc[p].u} : users'[x] = users[x]
          /\ \A id \in 1..Len(deposits) : id # loc[p].id => deposits'[id] = deposits[id]
          /\ Len(deposits') = Len(deposits)
          /\ UNCHANGED <<edges, withdrawals>>
          /\ TxStatusOnly(txs, txs')]_vars

C17_Witness ==
  /\ Idle
  /\ \E id \in 1..Len(deposits) :
       /\ ~deposits[id].isRegistrationDeposit /\ deposits[id].status = "approved"
       /\ deposits[id].user = "a"
       /\ users["a"].balance = deposits[id].amount
       /\ users["a"].totalDeposits = deposits[id].amount
       /\ CountTx(txs, "a", "deposit", deposits[id].amount, "completed") = 1
  /\ ~users["a"].isActive /\ ~users["a"].registrationDepositVerified
  /\ ~edges[1].isActive /\ users["s"].achievedLevels = <<>>

(***************************************************************************)
(* C18: a registration-deposit submission is accepted only for a user who  *)
(* has not submitted one and for an amount of at least 60.  A smaller      *)
(* amount or an already-submitted user is refused with the matching error  *)
(* and changes no document.  An accepted submission sets                   *)
(* registrationDepositPaid and nothing else of the user, creates one       *)
(* pending registration Deposit and one pending deposit Transaction for    *)
(* the amount, and changes nothing else.                                   *)
(***************************************************************************)
Submitting(p) == loc[p].op = "submitRegistrationDeposit"

NoVerificationInProgress == \A p \in Procs : loc[p].op # "verifyRegistrationDeposit"

C19_EdgeMirrorsVerification ==
  NoVerificationInProgress =>
    \A i \in 1..Len(edges) :
      edges[i].isActive = users[edges[i].referred].registrationDepositVerified

(***************************************************************************)
(* C20: an evaluation marks a tier newly achieved exactly when its level   *)
(* is not in achievedLevels and the active-left and active-right counts    *)
(* reach leftRequired and rightRequired.  When it returns, achievedLevels  *)
(* has gained exactly those tiers, the balance has risen by the sum of     *)
(* their rewards, and there is exactly one completed level_reward          *)
(* Transaction per tier held (none for a tier not held).                   *)
(***************************************************************************)
NewTiers(achieved, l, r) ==
  {LEVEL_REWARDS[i].level : i \in {j \in 1..Len(LEVEL_REWARDS) :
       /\ LEVEL_REWARDS[j].level \in TierLevels
       /\ \A k \in 1..Len(achieved) : achieved[k] # LEVEL_REWARDS[j].level
       /\ l >= LEVEL_REWARDS[j].leftRequired
       /\ r >= LEVEL_REWARDS[j].rightRequired}}

RECURSIVE SetReward(_)
SetReward(S) ==
  IF S = {} THEN 0
  ELSE LET x == CHOOSE y \in S : TRUE IN RewardOf(x) + SetReward(S \ {x})

C20_EvaluationContract ==
  [][\A p \in Procs : (loc[p].op = "checkLevelRewards" /\ pc'[p] = "idle") =>
       LET u == loc[p].u
           d == loc[p].doc
           new == NewTiers(d.achievedLevels, CountActive(edges, u, "left"),
                           CountActive(edges, u, "right"))
       IN /\ Range(users'[u].achievedLevels) = Range(d.achievedLevels) \cup new
          /\ Len(users'[u].achievedLevels) = Len(d.achievedLevels) + Cardinality(new)
          /\ users'[u].balance = d.balance + SetReward(new)
          /\ Len(txs') = Len(txs) + (IF pc[p] = "clr_tx" THEN 1 ELSE 0)
          /\ \A L \in TierLevels :
               CountTx(txs', u, "level_reward", RewardOf(L), "completed")
                 = IF L \in Range(d.achievedLevels) \cup new THEN 1 ELSE 0]_vars

C20_Witness ==
  /\ pc[1] = "clr_save" /\ loc[1].op = "checkLevelRewards"
  /\ loc[1].doc.achievedLevels = << >> /\ loc[1].newly = <<1>>
  /\ loc[1].left = 1 /\ loc[1].right = 1
  /\ CountTx(txs, loc[1].u, "level_reward", 11, "completed") = 1
  /\ users[loc[1].u].balance = 60

(***************************************************************************)
(* C21: inside the lock period a withdrawal request (withdrawals enabled)  *)
(* is accepted exactly when amount <= max(0, balance - withdrawLockAmount);*)
(* a larger request is refused as locked, creates no Withdrawal and no     *)
(* Transaction and leaves the balance unchanged; and once any withdrawal   *)
(* has been accepted inside the lock period the balance never is below     *)
(* withdrawLockAmount, whatever sequence of requests follows.              *)
(***************************************************************************)
C21_LockPeriod ==
  /\ [][\A p \in Procs, u \in WalletUsers, amt \in WdrAmounts :
          createWithdrawal(p, u, amt, TRUE, TRUE) =>
             IF amt <= Max0(users[u].balance - WithdrawLockAmount)
             THEN /\ pc'[p] = "cw_wd" /\ loc'[p].u = u /\ loc'[p].amt = amt
                  /\ UNCHANGED <<db, refusal>>
             ELSE /\ UNCHANGED <<db, pc, loc>>
                  /\ refusal' = "Locked"]_vars
  /\ [](\A u \in WalletUsers :
          (\E i \in 1..Len(withdrawals) : withdrawals[i].user = u) =>
             users[u].balance >= WithdrawLockAmount)

C21_Witness ==
  /\ Idle
  /\ Len(withdrawals) = 1 /\ withdrawals[1].before = 105 /\ withdrawals[1].amount = 40
  /\ users["s"].balance = 65
  /\ nreq = 2 /\ refusal = "Locked"

(***************************************************************************)
(* C22: a Transaction's status changes only from pending, and only to      *)
(* completed, rejected or cancelled; no step changes a Transaction's user, *)
(* type or amount, and no step deletes a Transaction.                      *)
(***************************************************************************)
FinalStatuses == {"completed", "rejected", "cancelled"}

C22_StatusMonotone ==
  [][/\ Len(txs') >= Len(txs)
     /\ \A i \in 1..Len(txs) :
          /\ txs'[i].user = txs[i].user
          /\ txs'[i].type = txs[i].type
          /\ txs'[i].amount = txs[i].amount
          /\ txs'[i].status # txs[i].status =>
               txs[i].status = "pending" /\ txs'[i].status \in FinalStatuses]_vars

C22_Witness ==
  /\ Idle
  /\ \E i, j \in 1..Len(txs) :
       /\ txs[i].type = "withdrawal" /\ txs[i].status = "rejected"
       /\ txs[j].type = "deposit" /\ txs[j].status = "completed"

(***************************************************************************)
(* C23: a getSetting of a key absent from the store caches the default, so *)
(* a later getSetting of that key on the same worker inside the L1 window  *)
(* issues no store query: a call reaches Settings.findOne for an absent    *)
(* key only when its worker's L1 holds no fresh entry for the key.  This   *)
(* is to hold for every default, null (none supplied) included.            *)
(***************************************************************************)
C23_DefaultIsCached ==
  \A p \in Procs :
    (cpc[p] = "gs_find" /\ cloc[p].op = "getSetting" /\ ~store[cloc[p].key].has) =>
       ~FreshL1(l1[cloc[p].w][cloc[p].key], now)

(***************************************************************************)
(* C24: getSettings issues at most one store query per call, and none when *)
(* every requested key is found in a cache level: a call whose Redis       *)
(* commands all succeeded reaches Settings.find only if some requested key *)
(* is in neither the worker's fresh L1 nor a live Redis entry.             *)
(***************************************************************************)
InCache(w, k) == FreshL1(l1[w][k], now) \/ (redis /\ LiveL2(l2[k], now))

GetSettingsAtMostOneQuery == \A p \in Procs : cloc[p].queries <= 1

C24_BatchQueries ==
  /\ GetSettingsAtMostOneQuery
  /\ \A p \in Procs :
       (cpc[p] = "gm_find" /\ ~cloc[p].err) =>
          \E i \in 1..Len(cloc[p].keys) : ~InCache(cloc[p].w, cloc[p].keys[i])

(***************************************************************************)
(* C25: with the shared cache unavailable or every shared-cache command    *)
(* failing, get, getMany, set and invalidate still complete (a call in     *)
(* progress always has a next step and no Redis entry changes), and a read *)
(* returns what the worker's L1 and the Settings store alone give: a       *)
(* getSetting returns the fresh L1 value it started with, else the stored  *)
(* value, else the default; every result of getSettings is the worker's L1 *)
(* value for a key it did not fetch and the stored value (or default) for  *)
(* a key it fetched; set leaves the value in L1 and invalidate leaves the  *)
(* key out of L1.                                                          *)
(***************************************************************************)
CallCanStep(p) ==
  ENABLED (\/ gs_redisGet(p, FALSE) \/ gs_find(p) \/ gs_set(p) \/ gs_redisSetex(p, FALSE)
           \/ gs_done(p)
           \/ gm_get(p) \/ gm_redisGet(p, FALSE) \/ gm_find(p) \/ gm_set(p)
           \/ gm_redisSetex(p, FALSE) \/ gm_done(p)
           \/ inv_redisDel(p, FALSE) \/ inv_redisKeys(p, FALSE) \/ inv_done(p))

C25_DegradedReads ==
  \A p \in Procs :
    /\ cpc[p] # "idle" => CallCanStep(p)
    /\ cpc[p] = "gs_done" =>
         /\ cloc[p].ret = cloc[p].exp
         /\ l1[cloc[p].w][cloc[p].key].has /\ l1[cloc[p].w][cloc[p].key].value = cloc[p].ret
    /\ cpc[p] = "gm_done" =>
         \A i \in 1..Len(cloc[p].keys) :
            LET k == cloc[p].keys[i] IN
              /\ cloc[p].res[k] # Undefined
              /\ l1[cloc[p].w][k].has /\ l1[cloc[p].w][k].value = cloc[p].res[k]
              /\ Includes(cloc[p].fetch, k) =>
                   cloc[p].res[k] = IF store[k].has THEN store[k].value
                                    ELSE DefaultOrNull(cloc[p].def)
    /\ (cpc[p] = "inv_done" /\ cloc[p].key # NoKey) => ~l1[cloc[p].w][cloc[p].key].has
    /\ (cpc[p] = "inv_done" /\ cloc[p].key = NoKey) => \A k \in Keys : ~l1[cloc[p].w][k].has
    /\ l2 \in {[k \in Keys |-> NoShared],
               [k \in Keys |-> IF k = "k1"
                               THEN [has |-> TRUE, text |-> Stringify(1), expires |-> REDIS_TTL]
                               ELSE NoShared]}

C25_Witness ==
  /\ redis /\ l2["k1"].has /\ now = 1
  /\ cpc[1] = "gs_done" /\ cloc[1].key = "k1" /\ cloc[1].w = 1
  /\ cloc[1].ret = 1 /\ cloc[1].val = 1
  /\ l1[1]["k1"].timestamp = 1

(***************************************************************************)
(* C26: a user receives the daily spin reward at most once per calendar    *)
(* day.  Every request of a behaviour falls on the same day, so no user    *)
(* ever has more than one daily_reward Transaction, under any interleaving *)
(* of spin requests.                                                       *)
(***************************************************************************)
DailyRewards(u) == Cardinality({i \in 1..Len(txs) : txs[i].user = u /\ txs[i].type = "daily_reward"})

C26_OneSpinPerDay == \A u \in Users : DailyRewards(u) <= 1

(***************************************************************************)
(* C27: balance updates on one user are never lost.  Every save of a       *)
(* balance-mutating operation moves the stored balance by exactly the      *)
(* credit or debit the operation applies (so the final balance is the      *)
(* initial one plus all applied credits minus all applied debits),         *)
(* whatever other requests on the same user ran in between.                *)
(***************************************************************************)
\* the credit (positive) or debit (negative) the save at pc[p] applies
AppliedDelta(p) ==
  CASE pc[p] = "cw_usave" -> 0 - loc[p].amt
    [] pc[p] = "uw_usave" -> IF loc[p].status = "rejected" THEN loc[p].amt ELSE 0
    [] pc[p] = "ud_usave" -> loc[p].amt
    [] pc[p] = "vr_usave" -> IF loc[p].status = "approved" THEN loc[p].amt ELSE 0
    [] pc[p] \in {"clr_save", "plr_save"} -> SumRewards(loc[p].newly)
    [] pc[p] = "cb_usave" -> loc[p].amt
    [] pc[p] = "sw_usave" -> loc[p].amt
    [] OTHER -> 0

BalanceOwner(p) == IF pc[p] \in {"clr_save", "plr_save"} THEN loc[p].ev ELSE loc[p].u

C27_NoLostUpdate ==
  [][\A p \in Procs :
       (pc[p] # "idle" /\ pc'[p] # pc[p]) =>
          users'[BalanceOwner(p)].balance = users[BalanceOwner(p)].balance + AppliedDelta(p)]_vars

(***************************************************************************)
(* C28: two withdrawal requests of one user whose amounts together exceed  *)
(* the balance are never both accepted: in every state the amounts of a    *)
(* user's pending and approved Withdrawals sum to no more than the total   *)
(* ever credited to the user (approved deposits, level rewards, bonuses    *)
(* and daily rewards).                                                     *)
(***************************************************************************)
RECURSIVE HeldWithdrawals(_, _)
HeldWithdrawals(ws, u) ==
  IF ws = << >> THEN 0
  ELSE (IF Head(ws).user = u /\ Head(ws).status \in {"pending", "approved"}
        THEN Head(ws).amount ELSE 0) + HeldWithdrawals(Tail(ws), u)

RECURSIVE RewardCredits(_, _)
RewardCredits(ts, u) ==
  IF ts = << >> THEN 0
  ELSE (IF Head(ts).user = u /\ Head(ts).status = "completed"
           /\ Head(ts).type \in {"level_reward", "bonus", "daily_reward"}
        THEN Head(ts).amount ELSE 0) + RewardCredits(Tail(ts), u)

TotalCredited(u) == users[u].totalDeposits + RewardCredits(txs, u)

C28_WithdrawalsWithinCredits ==
  \A u \in Users : HeldWithdrawals(withdrawals, u) <= TotalCredited(u)

(***************************************************************************)
(* C29: placement is a count-then-insert without a guard.  The edge a      *)
(* registration inserts takes its side from the count the registration     *)
(* read earlier (left for an even count), whatever the sponsor's edges are *)
(* at the time of the insert, and that count can be out of date: it never  *)
(* exceeds the edges present, and under concurrent registrations it can be *)
(* smaller, so a state is reachable where the sponsor's edges in creation  *)
(* order do not alternate and the side counts differ by more than one.     *)
(***************************************************************************)
CountSide(es, r, sd) == Cardinality({i \in 1..Len(es) : es[i].referrer = r /\ es[i].side = sd})

C29_PlacementUsesCountRead ==
  [][\A p \in Procs : pc[p] = "reg_edge" /\ pc'[p] = "idle" =>
       /\ loc[p].left <= CountAll(edges, loc[p].ref)
       /\ Len(edges') = Len(edges) + 1
       /\ edges'[Len(edges')] =
            Referral(loc[p].ref, loc[p].u,
                     IF loc[p].left % 2 = 0 THEN "left" ELSE "right", FALSE)]_vars

C29_Witness ==
  /\ Idle
  /\ Len(edges) = 2
  /\ edges[1].referrer = "s" /\ edges[2].referrer = "s"
  /\ edges[1].side = "left" /\ edges[2].side = "left"
  /\ CountSide(edges, "s", "left") - CountSide(edges, "s", "right") > 1

(***************************************************************************)
(* C30: a cache read that overlaps a write cannot re-install the old       *)
(* value.  When a getSetting that missed both levels has read the store,   *)
(* and a store write of the key followed by an invalidation of the key     *)
(* completed before the getSetting wrote the cache, then once the          *)
(* getSetting has finished no cache level holds the value it read unless   *)
(* that is still the stored value.                                         *)
(***************************************************************************)
C30_NoStaleReinstall ==
  \A p \in Procs :
    (cpc[p] = "gs_done" /\ cloc[p].raced /\ StoredOr(cloc[p].key, Null) # cloc[p].val) =>
       /\ ~(l1[cloc[p].w][cloc[p].key].has /\ l1[cloc[p].w][cloc[p].key].value = cloc[p].val)
       /\ ~(l2[cloc[p].key].has /\ Parse(l2[cloc[p].key].text) = cloc[p].val)

(***************************************************************************)
(* C31: invalidation reaches every process.  A getSetting that a worker    *)
(* answers at once from its own L1 entry, when that entry was there as     *)
(* another worker's invalidateSettingCache of the key returned, yields the *)
(* value the store holds for the key (or the default when it holds none),  *)
(* not the value cached before the invalidation.                           *)
(***************************************************************************)
C31_InvalidationReachesPeers ==
  [][\A p \in Procs :
       (cpc[p] = "idle" /\ cpc'[p] = "gs_done"
          /\ <<cloc'[p].w, cloc'[p].key, "peer">> \in purged) =>
            cloc'[p].ret = StoredOr(cloc'[p].key, cloc'[p].def)]_vars

(***************************************************************************)
(* C32: when the level-reward engine has failed inside a registration-     *)
(* deposit approval, the approval's last step does not complete the        *)
(* deposit Transaction: it leaves the Transaction log as it is.            *)
(***************************************************************************)
C32_EngineFailureSurfaced ==
  [][\A p \in Procs :
       (pc[p] = "vr_tx" /\ loc[p].error /\ pc'[p] = "idle") => txs' = txs]_vars

(***************************************************************************)
(* C33: an evaluation (requests one at a time) that finds no newly         *)
(* achieved tier ends after its counts and writes nothing: users, referral *)
(* edges and the Transaction log stay as they are through all its steps.   *)
(* An evaluation that finds some writes the sponsor once: the steps that   *)
(* create the level_reward Transactions leave users and edges alone, and   *)
(* the one save that follows stores the new achievedLevels and the new     *)
(* balance together and touches no other user.                             *)
(***************************************************************************)
ReadLabels == {"plr_read", "plr_left", "plr_right", "clr_left", "clr_right"}

C33_EvaluationWrites ==
  [][\A p \in Procs :
       /\ (pc[p] \in ReadLabels \/ pc'[p] = "clr_left") =>
            users' = users /\ edges' = edges /\ txs' = txs
       /\ (pc[p] \in {"plr_right", "clr_right"}
             /\ NewTiers(loc[p].doc.achievedLevels, loc[p].left,
                         CountActive(edges, loc[p].ev, "right")) = {}) =>
            pc'[p] \in {"idle", "vr_tx"}
       /\ pc[p] \in {"plr_tx", "clr_tx"} =>
            users' = users /\ edges' = edges /\ pc'[p] \in {pc[p], "plr_save", "clr_save"}
       /\ pc[p] \in {"plr_save", "clr_save"} =>
            /\ loc[p].newly # << >>
            /\ users'[loc[p].ev].achievedLevels = loc[p].doc.achievedLevels \o loc[p].newly
            /\ users'[loc[p].ev].balance = loc[p].doc.balance + SumRewards(loc[p].newly)
            /\ \A v \in Users \ {loc[p].ev} : users'[v] = users[v]
            /\ edges' = edges /\ txs' = txs
            /\ pc'[p] \in {"idle", "vr_tx"}]_vars

\* the approval of a's deposit has evaluated s, which achieved level 1 and was saved
C33_Witness ==
  /\ pc[1] = "vr_tx" /\ loc[1].ev = "s" /\ loc[1].newly = <<1>>
  /\ users["s"].achievedLevels = <<1>>
  /\ users["s"].balance = loc[1].doc.balance + RewardOf(1)

(***************************************************************************)
(* C34: a shared-cache hit is recognised for every stored value.  When a   *)
(* getSetting has passed the local level and Redis, answering its get,     *)
(* holds a live entry for the key with a value other than null, the call   *)
(* goes on to return that value, the worker's L1 entry becomes that value  *)
(* stamped with the current time, and the store is not queried.            *)
(***************************************************************************)
C34_SharedHitRecognised ==
  [][\A p \in Procs :
       LET k == cloc[p].key
           v == Parse(l2[k].text)
       IN (cpc[p] = "gs_l2" /\ cpc'[p] # "gs_l2" /\ LiveL2(l2[k], now) /\ v # Null) =>
            /\ cpc'[p] = "gs_done"
            /\ cloc'[p].ret = v
            /\ l1'[cloc[p].w][k] = [has |-> TRUE, value |-> v, timestamp |-> now]]_vars

(***************************************************************************)
(* C35: batch and single reads agree.  When the first two calls made on    *)
(* equal store and cache states are a getSetting(k, d) on one worker and a *)
(* getSettings([k], {k: d}) on the other, and both are about to return,    *)
(* the value getSetting returns equals the result getSettings has for k.   *)
(***************************************************************************)
C35_BatchAgreesWithSingle ==
  \A p, q \in Procs :
    (/\ cpc[p] = "gs_done" /\ cpc[q] = "gm_done" /\ nreq = 2
     /\ cloc[p].w # cloc[q].w
     /\ cloc[q].keys = <<cloc[p].key>> /\ cloc[q].def = cloc[p].def) =>
       cloc[q].res[cloc[p].key] = cloc[p].ret

(***************************************************************************)
(* C36: a failed registration-deposit submission leaves the user           *)
(* resubmittable.  Whenever no submission is in progress, every user whose *)
(* registrationDepositPaid is true has a registration Deposit record.      *)
(***************************************************************************)
C36_PaidHasDeposit ==
  (\A p \in Procs : loc[p].op # "submitRegistrationDeposit") =>
     \A u \in Users :
       users[u].registrationDepositPaid =>
         \E i \in 1..Len(deposits) :
           deposits[i].user = u /\ deposits[i].isRegistrationDeposit

(***************************************************************************)
(* C37: each deposit stays linked to its own Transaction.  Whenever no     *)
(* request is in progress, for every user and amount the number of pending *)
(* Deposit records equals the number of pending deposit Transactions.      *)
(***************************************************************************)
PendingDeposits(u, amt) ==
  Cardinality({i \in 1..Len(deposits) :
                 /\ deposits[i].user = u /\ deposits[i].amount = amt
                 /\ deposits[i].status = "pending"})

C37_DepositsMatchTransactions ==
  Idle => \A u \in Users, amt \in RegAmounts \cup DepAmounts :
            PendingDeposits(u, amt) = CountTx(txs, u, "deposit", amt, "pending")

(***************************************************************************)
(* C38: with evaluations run one at a time, achievedLevels is downward     *)
(* closed (a user holding level k holds every level 1..k-1), and the list  *)
(* of newly achieved levels an evaluation builds is in ascending order.    *)
(***************************************************************************)
DownwardClosed(levels) ==
  \A k \in Range(levels) : \A j \in 1..(k - 1) : j \in Range(levels)

Ascending(levels) ==
  \A i, j \in 1..Len(levels) : i < j => levels[i] < levels[j]

C38_LevelsDownwardClosed ==
  /\ \A u \in Users : DownwardClosed(users[u].achievedLevels)
  /\ \A p \in Procs : Ascending(loc[p].newly)

\* an evaluation of s, holding level 1 with 12 active members a side, has awarded 2 and 3
C38_Witness ==
  /\ pc[1] = "clr_save" /\ loc[1].ev = "s"
  /\ loc[1].doc.achievedLevels = <<1>> /\ loc[1].newly = <<2, 3>>
  /\ loc[1].left = 12 /\ loc[1].right = 12

(***************************************************************************)
(* C39: the two evaluation entry points are equivalent.  When a            *)
(* checkLevelRewards of one user takes its last step while a               *)
(* processLevelRewards of another user, started on an equal User record    *)
(* and an equal team, has returned and not yet been collected, the two     *)
(* calls have the same leftCount, rightCount and newly achieved levels     *)
(* (hence the same achievedLevels and balance in their results), the two   *)
(* User records are equal afterwards, and the two users have the same      *)
(* level_reward Transactions.                                              *)
(***************************************************************************)
SameTeam(u, v) ==
  \A sd \in {"left", "right"} : CountActive(edges, u, sd) = CountActive(edges, v, sd)

Twins(p, q) ==
  /\ loc[p].op = "checkLevelRewards" /\ pc[p] \in {"clr_right", "clr_save"}
  /\ loc[q].op = "processLevelRewards" /\ pc[q] = "vr_tx"
  /\ loc[p].ev # loc[q].ev
  /\ loc[p].doc = loc[q].doc
  /\ SameTeam(loc[p].ev, loc[q].ev)

C39_EntryPointsAgree ==
  [][\A p, q \in Procs :
       (Twins(p, q) /\ pc'[p] = "idle") =>
          /\ loc[p].left = loc[q].left
          /\ (IF pc[p] = "clr_right" THEN CountActive(edges, loc[p].ev, "right")
              ELSE loc[p].right) = loc[q].right
          /\ loc[p].newly = loc[q].newly
          /\ users'[loc[p].ev] = users'[loc[q].ev]
          /\ \A L \in TierLevels :
               CountTx(txs', loc[p].ev, "level_reward", RewardOf(L), "completed")
                 = CountTx(txs', loc[q].ev, "level_reward", RewardOf(L), "completed")]_vars

\* both calls have awarded level 1 to users that held nothing; the
\* checkLevelRewards is about to save
C39_Witness ==
  \E p, q \in Procs :
    /\ Twins(p, q) /\ pc[p] = "clr_save"
    /\ loc[p].newly = <<1>> /\ loc[q].newly = <<1>>
    /\ users[loc[q].ev].achievedLevels = <<1>>

====
